---- MODULE Spec2Model ----
(***************************************************************************)
(* Model of the parallel subdomain DOF-mapping layer (DofMaps, ParDST) and *)
(* of the flux-corrected-transport blender (ex9).                          *)
(*                                                                         *)
(* C arrays are 0-based; an Array<int> a is modelled as a sequence s with  *)
(* a[i] = s[i+1].  Arrays indexed by rank or by subdomain id are modelled  *)
(* as functions over 0..n-1.                                               *)
(***************************************************************************)
EXTENDS Integers, Sequences, FiniteSets, TLC

VARIABLES
    \* ---- immutable inputs read by DofMaps::Init
    dim,                 \* pfes->GetParMesh()->Dimension()
    nxyz,                \* part->nxyz
    subdomain_rank,      \* part->subdomain_rank
    tdof_offsets,        \* ComputeTdofOffsets
    part,                \* ParMeshPartition: element maps and subdomain meshes
    pfes,                \* the global ParFiniteElementSpace, one view per rank
    fes,                 \* the subdomain FiniteElementSpaces
    \* ---- SubdomainToGlobalMapsSetup / GlobalToSubdomains / SubdomainsToGlobal
    pc,                  \* position of every rank in the collective code
    send_count, send_displ, recv_count, recv_displ,
    sendbuf, recvbuf,
    local_tdofs, global_tdofs,
    SubdomainGTrueDofs, SubdomainLTrueDofs,
    y,                   \* the global true-dof vector, one slice per rank
    x,                   \* the subdomain vectors, held per rank
    yPre,                \* y at the entry of the running call
    calls,               \* number of transfer-operator calls started
    \* ---- SubdomainToSubdomainMapsSetup / TransferToNeighbors
    tpc,                 \* position of every rank in the overlap code
    OvlpElems, OvlpTDofs, OvlpSol,
    SubdomainIds,        \* the id list every rank passes to TransferToNeighbors
    xs,                  \* the Array<Vector *> every rank passes with it
    send_buffer, recv_buffer,
    send_requests, recv_requests,
    net,                 \* messages handed to MPI_Isend and not yet received
    protocol,            \* how the MPI library completes a send
    nOvlpSol,            \* Vectors allocated for OvlpSol and not deleted
    tcalls,              \* TransferToNeighbors calls every rank has returned from
    \* ---- ex9: FE_Evolution and its FluxCorrectedTransport
    u, yH, yL,           \* the arguments x, yH, yL of ComputeFCTSolution
    ydot,                \* its result y
    bnds,                \* fct.bnds: x_min and x_max
    lumpedM, dt,
    fctpc,               \* position in the time step
    monoType,            \* fct.monoType
    ywrites,             \* the routines FE_Evolution::Mult ran, with the vector each wrote
    \* ---- get_rank(tdof, tdof_offsets)
    tdof_arg,            \* its first argument; the second is tdof_offsets
    rank_ret,            \* its return value
    \* ---- QuadratureInterpolator::Values<QVectorLayout::byVDIM>
    qi,                  \* NE, dim, vdim, D1D, Q1D of the space and the rule
    kernel,              \* what the call ran
    \* ---- EvalByVDim2D / EvalByVDim3D run on a device
    launch,              \* the kernel launched and its arguments
    kmem,                \* shared memory of every block, and the output y
    kpos,                \* barrier phases each thread has run
    kepoch,              \* barriers each block has passed
    klog,                \* accesses made since the last barrier of the block
    \* ---- ex9: FluxCorrectedTransport set-up and the low-order routines
    prob,                \* the mesh, the space, the matrices and vectors handed in
    fct,                 \* members of the FluxCorrectedTransport object
    evo,                 \* what the running routine of ex9 produced
    asmpc                \* position in that routine

inputVars == <<dim, nxyz, subdomain_rank, tdof_offsets, part, pfes, fes>>
wsVars    == <<send_count, send_displ, recv_count, recv_displ, sendbuf, recvbuf>>
mapVars   == <<local_tdofs, global_tdofs, SubdomainGTrueDofs, SubdomainLTrueDofs>>
vecVars   == <<y, x, yPre, calls>>
ovlpVars  == <<OvlpElems, OvlpTDofs>>
callVars  == <<SubdomainIds, xs, protocol>>
reqVars   == <<send_buffer, recv_buffer, send_requests, recv_requests, net>>
xferVars  == <<tpc, ovlpVars, OvlpSol, callVars, reqVars, nOvlpSol, tcalls>>
bridgeVars == <<pc, wsVars, mapVars, vecVars>>
fctVars   == <<u, yH, yL, ydot, bnds, lumpedM, dt, fctpc, monoType, ywrites>>
kernVars  == <<launch, kmem, kpos, kepoch, klog>>
asmVars   == <<prob, fct, evo, asmpc>>
unitVars  == <<tdof_arg, rank_ret, qi, kernel, kernVars, asmVars>>
vars      == <<inputVars, bridgeVars, xferVars, fctVars, unitVars>>

----------------------------------------------------------------------------
(* Bounds of the model *)
num_procs == 2
MaxCalls  == 2
MaxTableLen == 3     \* longest offset table handed to get_rank
MaxOffset == 4       \* largest offset in such a table

Ranks == 0 .. num_procs - 1

----------------------------------------------------------------------------
(* Generic helpers *)
Iota(n) == [i \in 1 .. n |-> i - 1]

Max2(a, b) == IF a >= b THEN a ELSE b
Min2(a, b) == IF a <= b THEN a ELSE b

RECURSIVE SumSeq(_)
SumSeq(s) == IF s = <<>> THEN 0 ELSE Head(s) + SumSeq(Tail(s))

RECURSIVE Flatten(_)
Flatten(ss) == IF ss = <<>> THEN <<>> ELSE Head(ss) \o Flatten(Tail(ss))

\* a[i] of a 0-based array held as a sequence
At(s, i) == s[i + 1]

\* position (0-based) of the first occurrence of v in s
IndexOf(s, v) == (CHOOSE i \in 1 .. Len(s) : s[i] = v /\ \A j \in 1 .. i - 1 : s[j] # v) - 1

\* the distinct entries of s in order of first occurrence
FirstOccurrences(s, acc) ==
    LET first(i) == /\ \A j \in 1 .. i - 1 : s[j] # s[i]
                    /\ \A k \in 1 .. Len(acc) : acc[k] # s[i]
        pick(idx) == acc \o [n \in 1 .. Len(idx) |-> s[idx[n]]]
    IN  pick(SelectSeq([i \in 1 .. Len(s) |-> i], first))

\* int dof = (dof_ >= 0) ? dof_ : abs(dof_) - 1;
DecodeDof(dof_) == IF dof_ >= 0 THEN dof_ ELSE (0 - dof_) - 1

\* orientation-encoded element dof, as the finite-element space hands it out
EncodeDof(dof, flipped) == IF flipped THEN (0 - dof) - 1 ELSE dof

----------------------------------------------------------------------------
(* get_rank and the index helpers of DofMapsDST.cpp *)

\* std::upper_bound(begin, end, tdof): the binary search of the standard library,
\* first and the result being 0-based positions
RECURSIVE UpperBoundFrom(_, _, _, _)
UpperBoundFrom(offsets, tdof, first, count) ==
    IF count <= 0 THEN first
    ELSE LET step == count \div 2
             it   == first + step
         IN  IF ~(tdof < At(offsets, it))
             THEN UpperBoundFrom(offsets, tdof, it + 1, count - (step + 1))
             ELSE UpperBoundFrom(offsets, tdof, first, step)

UpperBound(offsets, tdof) == UpperBoundFrom(offsets, tdof, 0, Len(offsets))

\* get_rank without the step back from the upper bound
get_rank_NoStepBack(tdof, offsets) ==
    IF Len(offsets) = 1 THEN 0 ELSE UpperBound(offsets, tdof)

\* lines 10-17
get_rank(tdof, offsets) ==
    IF Len(offsets) = 1 THEN 0 ELSE UpperBound(offsets, tdof) - 1

GetSubdomainijk(ip, n) ==
    LET k == ip \div (n[1] * n[2])
    IN  << (ip - (k * n[1] * n[2])) % n[1], (ip - (k * n[1] * n[2])) \div n[1], k >>

\* GetDirectionijk with the first two entries exchanged
GetDirectionijk_Transposed(id) ==
    LET k == (id \div 9) - 1
    IN  << ((id - ((k + 1) * 9)) \div 3) - 1, ((id - ((k + 1) * 9)) % 3) - 1, k >>

GetDirectionijk(id) ==
    LET k == (id \div 9) - 1
    IN  << ((id - ((k + 1) * 9)) % 3) - 1, ((id - ((k + 1) * 9)) \div 3) - 1, k >>

\* ijk is an Array<int>; its Size() decides whether the third entry is read
GetSubdomainId(n, ijk) ==
    LET k == IF Len(ijk) = 2 THEN 0 ELSE ijk[3]
    IN  (k * n[2] * n[1]) + (ijk[2] * n[1]) + ijk[1]

GetDirectionId(ijk) ==
    LET k == IF Len(ijk) = 2 THEN -1 ELSE ijk[3]
    IN  ((k + 1) * 9) + ((ijk[2] + 1) * 3) + ijk[1] + 1

----------------------------------------------------------------------------
(* The collaborators DofMaps consumes: a uniform Cartesian mesh of unit    *)
(* cells, cut into an nx x ny x nz grid of boxes that are widened by       *)
(* OvlpNlayers cells on every side, a nodal space on it, and a contiguous  *)
(* distribution of the global elements over the ranks.  A world w is       *)
(* [dim, ne, nxyz, ovl, sg]: ne = cells per axis (ne[3] = 1 in 2D).        *)

NumElems(w) == w.ne[1] * w.ne[2] * w.ne[3]
NodesPerElem(w) == IF w.dim = 2 THEN 4 ELSE 8

\* cell coordinates of global element e (lexicographic numbering)
ElemIjk(w, e) == << e % w.ne[1], (e \div w.ne[1]) % w.ne[2], e \div (w.ne[1] * w.ne[2]) >>

\* mesh node at corner n of element e
ElemNode(w, e, n) ==
    LET c == ElemIjk(w, e)
        i == c[1] + (n % 2)
        j == c[2] + ((n \div 2) % 2)
        k == c[3] + (n \div 4)
    IN  (k * (w.ne[1] + 1) * (w.ne[2] + 1)) + (j * (w.ne[1] + 1)) + i

ElemNodes(w, e) == [m \in 1 .. NodesPerElem(w) |-> ElemNode(w, e, m - 1)]

\* the cells of subdomain ip along axis a are lo .. hi-1
BoxLo(w, a, i) == Max2(0, ((i * w.ne[a]) \div w.nxyz[a]) - w.ovl)
BoxHi(w, a, i) == Min2(w.ne[a], (((i + 1) * w.ne[a]) \div w.nxyz[a]) + w.ovl)

InSubdomain(w, ip, e) ==
    LET ijk == GetSubdomainijk(ip, w.nxyz)
        c   == ElemIjk(w, e)
    IN  \A a \in 1 .. 3 : BoxLo(w, a, ijk[a]) <= c[a] /\ c[a] < BoxHi(w, a, ijk[a])

NrSubdomains(w) == w.nxyz[1] * w.nxyz[2] * w.nxyz[3]

\* rank owning global element e; cut[r] is the first element of rank r >= 1
ElemRank(cut, e) == Cardinality({r \in 1 .. Len(cut) : cut[r] <= e})

ElementMap(w, ip) == SelectSeq(Iota(NumElems(w)), LAMBDA e : InSubdomain(w, ip, e))

\* orientation flag of entry n of element e under sign pattern sg
Flipped(sg, e, n) == sg = 1 /\ (e + n) % 2 = 1

\* ParMeshPartition as DofMaps reads it
MakePart(w, cut) ==
    LET centre(c) == << (2 * c[1]) + 1, (2 * c[2]) + 1, (2 * c[3]) + 1 >>
        with(em) ==
            [ nrsubdomains      |-> NrSubdomains(w),
              OvlpNlayers       |-> w.ovl,
              MeshSize          |-> 1,
              myelem_offset     |-> [p \in Ranks |-> IF p = 0 THEN 0 ELSE cut[p]],
              element_map       |-> em,
              local_element_map |-> [p \in Ranks |-> [ip \in DOMAIN em |->
                                        SelectSeq(em[ip], LAMBDA e : ElemRank(cut, e) = p)]],
              \* subdomain_mesh[ip]: twice the centre of every local element
              center2           |-> [ip \in DOMAIN em |->
                                        [m \in 1 .. Len(em[ip]) |-> centre(ElemIjk(w, em[ip][m]))]] ]
    IN  with([ip \in 0 .. NrSubdomains(w) - 1 |-> ElementMap(w, ip)])

\* FiniteElementSpace(part->subdomain_mesh[ip], fec): the local dofs are the
\* nodes of the subdomain mesh numbered as its elements first meet them
MakeFes(w, sg) ==
    LET space(em, nodes) ==
            [ ElementDofs |-> [m \in 1 .. Len(em) |->
                                 [n \in 1 .. NodesPerElem(w) |->
                                    EncodeDof(IndexOf(nodes, ElemNode(w, em[m], n - 1)),
                                              Flipped(sg, m, n))]],
              TrueVSize   |-> Len(nodes) ]
        on(em) == space(em, FirstOccurrences(
                               Flatten([m \in 1 .. Len(em) |-> ElemNodes(w, em[m])]), <<>>))
    IN  [ip \in 0 .. NrSubdomains(w) - 1 |-> on(ElementMap(w, ip))]

NumNodes(w) == (w.ne[1] + 1) * (w.ne[2] + 1) * (IF w.dim = 2 THEN 1 ELSE w.ne[3] + 1)

\* the rank owning each mesh node: the lowest rank with an element at the node
NodeRanks(w, cut) ==
    LET of(er, en) ==
            [v \in 0 .. NumNodes(w) - 1 |->
                CHOOSE r \in Ranks :
                    /\ \E e \in DOMAIN en : er[e] = r /\ v \in en[e]
                    /\ \A e \in DOMAIN en : v \in en[e] => er[e] >= r]
    IN  of([e \in 0 .. NumElems(w) - 1 |-> ElemRank(cut, e)],
           [e \in 0 .. NumElems(w) - 1 |->
               {ElemNode(w, e, n) : n \in 0 .. NodesPerElem(w) - 1}])

\* pfes->GetMyTDofOffset() of every rank, nr being NodeRanks
TDofOffsets(nr) ==
    [r \in Ranks |-> Cardinality({v \in DOMAIN nr : nr[v] < r})]

\* the global true dof of every mesh node: true dofs are numbered rank by rank
NodeGlobalTDofs(nr) ==
    LET from(of) == [v \in DOMAIN nr |->
                       of[nr[v]] + Cardinality({w2 \in DOMAIN nr : w2 < v /\ nr[w2] = nr[v]})]
    IN  from(TDofOffsets(nr))

\* the ParFiniteElementSpace on rank p: its local elements, their dofs
\* (orientation-encoded local dofs) and GetGlobalTDofNumber
MakePfes(w, cut, sg) ==
    LET space(p, nr, gt, of, mine, nodes) ==
            [ ElementDofs      |-> [m \in 1 .. Len(mine) |->
                                      [n \in 1 .. NodesPerElem(w) |->
                                         EncodeDof(IndexOf(nodes, ElemNode(w, mine[m], n - 1)),
                                                   Flipped(sg, mine[m] + 1, n))]],
              GlobalTDofNumber |-> [l \in 1 .. Len(nodes) |-> gt[nodes[l]]],
              MyTDofOffset     |-> of[p],
              TrueVSize        |-> Cardinality({v \in DOMAIN nr : nr[v] = p}) ]
        on(p, nr, gt, of, mine) ==
            space(p, nr, gt, of, mine,
                  FirstOccurrences(Flatten([m \in 1 .. Len(mine) |-> ElemNodes(w, mine[m])]), <<>>))
        all(nr) == [p \in Ranks |->
                      on(p, nr, NodeGlobalTDofs(nr), TDofOffsets(nr),
                         SelectSeq(Iota(NumElems(w)), LAMBDA e : ElemRank(cut, e) = p))]
    IN  all(NodeRanks(w, cut))

\* nondecreasing first-element tables for ranks 1 .. num_procs-1
Cuts(w) == {c \in [1 .. num_procs - 1 -> 0 .. NumElems(w)] :
                \A r \in 1 .. num_procs - 2 : c[r] <= c[r + 1]}

----------------------------------------------------------------------------
(* State after construction (DofMaps::Init) for the subdomain-global bridge *)

Subdomains == 0 .. part.nrsubdomains - 1

Zeros(n)   == [i \in 1 .. n |-> 0]
ZeroCounts == [r \in Ranks |-> 0]
NoLists    == [ip \in Subdomains |-> <<>>]

\* value a read of unwritten or out-of-range memory is shown as
Junk == {-1}

\* the parts of the state a specification does not exercise
MultUnused  == monoType = 0 /\ ywrites = <<>>
NoReturn    == [returned |-> FALSE, value |-> 0]
NoKernel    == [ran |-> "unused", T |-> <<>>]
KernUnused  == launch = <<>> /\ kmem = <<>> /\ kpos = <<>> /\ kepoch = <<>> /\ klog = {}
AsmUnused   == prob = <<>> /\ fct = <<>> /\ evo = <<>> /\ asmpc = "unused"
UnitsUnused ==
    /\ tdof_arg = 0 /\ rank_ret = NoReturn /\ qi = <<>> /\ kernel = NoKernel
    /\ KernUnused /\ AsmUnused

\* worlds the bridge is explored on; sg is the sign pattern of the element dofs
BridgeWorlds ==
    { [dim |-> 2, ne |-> <<4, 1, 1>>, nxyz |-> <<2, 1, 1>>, ovl |-> 0, sg |-> 0],
      [dim |-> 2, ne |-> <<4, 1, 1>>, nxyz |-> <<2, 1, 1>>, ovl |-> 1, sg |-> 1],
      [dim |-> 2, ne |-> <<3, 1, 1>>, nxyz |-> <<3, 1, 1>>, ovl |-> 1, sg |-> 1] }

InitInputs(w, cut, sr) ==
    /\ dim = w.dim
    /\ nxyz = w.nxyz
    /\ subdomain_rank = sr
    /\ tdof_offsets = [r \in 1 .. num_procs |-> TDofOffsets(NodeRanks(w, cut))[r - 1]]
    /\ part = MakePart(w, cut)
    /\ pfes = MakePfes(w, cut, w.sg)
    /\ fes = MakeFes(w, w.sg)

\* entry g of the global vector, and entry i of the vector of subdomain ip
YValue(g) == g + 1
XValue(ip, i) == (10 * (ip + 1)) + i

At_(ph, st) == [ph |-> ph, st |-> st]

InitBridge ==
    /\ \E w \in BridgeWorlds :
         \E cut \in Cuts(w), sr \in [0 .. NrSubdomains(w) - 1 -> Ranks] :
            InitInputs(w, cut, sr)
    /\ pc = [p \in Ranks |-> At_("A", "count")]
    /\ send_count = [p \in Ranks |-> ZeroCounts]
    /\ send_displ = [p \in Ranks |-> ZeroCounts]
    /\ recv_count = [p \in Ranks |-> ZeroCounts]
    /\ recv_displ = [p \in Ranks |-> ZeroCounts]
    /\ sendbuf = [p \in Ranks |-> <<>>]
    /\ recvbuf = [p \in Ranks |-> <<>>]
    /\ local_tdofs = [p \in Ranks |-> NoLists]
    /\ global_tdofs = [p \in Ranks |-> NoLists]
    /\ SubdomainGTrueDofs = [p \in Ranks |-> NoLists]
    /\ SubdomainLTrueDofs = [p \in Ranks |-> NoLists]
    /\ y = [p \in Ranks |-> [k \in 1 .. pfes[p].TrueVSize |-> YValue(pfes[p].MyTDofOffset + k - 1)]]
    /\ x = [p \in Ranks |-> [ip \in Subdomains |->
               IF subdomain_rank[ip] = p
               THEN [i \in 1 .. fes[ip].TrueVSize |-> XValue(ip, i - 1)] ELSE <<>>]]
    /\ yPre = y
    /\ calls = 0
    /\ tpc = [p \in Ranks |-> "unused"]
    /\ OvlpElems = <<>> /\ OvlpTDofs = <<>> /\ OvlpSol = <<>>
    /\ SubdomainIds = <<>> /\ xs = <<>> /\ protocol = "eager"
    /\ send_buffer = <<>> /\ recv_buffer = <<>>
    /\ send_requests = <<>> /\ recv_requests = <<>> /\ net = <<>>
    /\ nOvlpSol = 0
    /\ tcalls = [p \in Ranks |-> 0]
    /\ MultUnused /\ UnitsUnused
    /\ u = <<>> /\ yH = <<>> /\ yL = <<>> /\ ydot = <<>> /\ bnds = <<>>
    /\ lumpedM = <<>> /\ dt = 0 /\ fctpc = "unused"

----------------------------------------------------------------------------
(* The exchange skeleton shared by the four collective rounds *)

\* Displ with send_displ[k+1] = send_displ[k] + send_count[k+1]
Displ_CountOfNext(count) == [r \in Ranks |-> SumSeq([k \in 1 .. r |-> count[k]])]

\* send_displ[k+1] = send_displ[k] + send_count[k]
Displ(count) == [r \in Ranks |-> SumSeq([k \in 1 .. r |-> count[k - 1]])]

\* send_count.Sum()
Sum(count) == SumSeq([k \in 1 .. num_procs |-> count[k - 1]])

\* buf[j .. j+Len(vals)-1] = vals
WriteAt(buf, j, vals) ==
    [i \in 1 .. Len(buf) |-> IF i > j /\ i <= j + Len(vals) THEN vals[i - j] ELSE buf[i]]

\* buf[k], k possibly past the end of the array
ReadAt(buf, k, junk) == IF 0 <= k /\ k < Len(buf) THEN buf[k + 1] ELSE junk

AllAt(ph, st) == \A p \in Ranks : pc[p] = At_(ph, st)

Phases == {"A", "B", "G", "S"}

\* MPI_Alltoall(send_count, 1, MPI_INT, recv_count, 1, MPI_INT, comm)
Alltoall ==
    \E ph \in Phases :
        /\ AllAt(ph, "alltoall")
        /\ recv_count' = [p \in Ranks |-> [q \in Ranks |-> send_count[q][p]]]
        /\ pc' = [p \in Ranks |-> At_(ph, "fill")]
        /\ UNCHANGED <<inputVars, fctVars, unitVars, xferVars, send_count, send_displ, recv_displ, sendbuf, recvbuf,
                       mapVars, vecVars>>

\* MPI_Alltoallv(sendbuf, send_count, send_displ, .., recvbuf, recv_count, recv_displ, ..)
AlltoallvRecv(p) ==
    LET seg(q) == [t \in 1 .. recv_count[p][q] |-> ReadAt(sendbuf[q], send_displ[q][p] + t - 1, -1)]
    IN  [i \in 1 .. Sum(recv_count[p]) |->
            LET q == CHOOSE r \in Ranks :
                        recv_displ[p][r] < i /\ i <= recv_displ[p][r] + recv_count[p][r]
            IN  seg(q)[i - recv_displ[p][q]]]

Alltoallv ==
    \E ph \in Phases :
        /\ AllAt(ph, "alltoallv")
        /\ recvbuf' = [p \in Ranks |-> AlltoallvRecv(p)]
        /\ pc' = [p \in Ranks |-> At_(ph, "extract")]
        /\ UNCHANGED <<inputVars, fctVars, unitVars, xferVars, send_count, send_displ, recv_count, recv_displ, sendbuf,
                       mapVars, vecVars>>

----------------------------------------------------------------------------
(* DofMaps::SubdomainToGlobalMapsSetup, phase A: local lists to the host rank *)

\* 1. the global true dofs of the elements rank p owns in every subdomain
A_LocalTDofs(p) ==
    [ip \in Subdomains |->
        Flatten([iel \in 1 .. Len(part.local_element_map[p][ip]) |->
            LET elem_idx     == part.local_element_map[p][ip][iel] - part.myelem_offset[p]
                element_dofs == At(pfes[p].ElementDofs, elem_idx)
            IN  [i \in 1 .. Len(element_dofs) |->
                    At(pfes[p].GlobalTDofNumber, DecodeDof(element_dofs[i]))]])]

\* 2a. send_count[subdomain_rank[ip]] += 2 + ndofs
A_SendCount(lt) ==
    [r \in Ranks |->
        SumSeq([k \in 1 .. part.nrsubdomains |->
            IF subdomain_rank[k - 1] = r /\ Len(lt[k - 1]) > 0 THEN 2 + Len(lt[k - 1]) ELSE 0])]

SetupA_Count(p) ==
    /\ pc[p] = At_("A", "count")
    /\ local_tdofs' = [local_tdofs EXCEPT ![p] = A_LocalTDofs(p)]
    /\ send_count' = [send_count EXCEPT ![p] = A_SendCount(A_LocalTDofs(p))]
    /\ send_displ' = [send_displ EXCEPT ![p] = ZeroCounts]
    /\ recv_count' = [recv_count EXCEPT ![p] = ZeroCounts]
    /\ recv_displ' = [recv_displ EXCEPT ![p] = ZeroCounts]
    /\ pc' = [pc EXCEPT ![p] = At_("A", "alltoall")]
    /\ UNCHANGED <<inputVars, fctVars, unitVars, xferVars, sendbuf, recvbuf, global_tdofs, SubdomainGTrueDofs,
                   SubdomainLTrueDofs, vecVars>>

\* 2c. the (subdomain, count, dofs) tuples, subdomain after subdomain
RECURSIVE A_FillFrom(_, _, _, _, _)
A_FillFrom(p, ip, displ, buf, soffs) ==
    IF ip >= part.nrsubdomains THEN buf
    ELSE LET ndofs == Len(local_tdofs[p][ip])
             r     == subdomain_rank[ip]
             j     == displ[r] + soffs[r]
         IN  IF ndofs > 0
             THEN A_FillFrom(p, ip + 1, displ,
                      WriteAt(buf, j, <<ip, ndofs>> \o local_tdofs[p][ip]),
                      [soffs EXCEPT ![r] = @ + 2 + ndofs])
             ELSE A_FillFrom(p, ip + 1, displ, buf, soffs)

SetupA_Fill(p) ==
    /\ pc[p] = At_("A", "fill")
    /\ send_displ' = [send_displ EXCEPT ![p] = Displ(send_count[p])]
    /\ recv_displ' = [recv_displ EXCEPT ![p] = Displ(recv_count[p])]
    /\ sendbuf' = [sendbuf EXCEPT ![p] =
                      A_FillFrom(p, 0, Displ(send_count[p]), Zeros(Sum(send_count[p])), ZeroCounts)]
    /\ pc' = [pc EXCEPT ![p] = At_("A", "alltoallv")]
    /\ UNCHANGED <<inputVars, fctVars, unitVars, xferVars, send_count, recv_count, recvbuf, mapVars, vecVars>>

\* 3. while (k < rbuff_size): ip, ndofs, then ndofs dofs appended to global_tdofs[ip]
RECURSIVE A_ExtractFrom(_, _, _)
A_ExtractFrom(buf, k, acc) ==
    IF k >= Len(buf) THEN acc
    ELSE LET ip    == At(buf, k)
             ndofs == At(buf, k + 1)
         IN  A_ExtractFrom(buf, k + 2 + ndofs,
                 [acc EXCEPT ![ip] = @ \o SubSeq(buf, k + 3, k + 2 + ndofs)])

\* LocalElementDofs with a negative dof decoded as abs(dof_), the -1 forgotten
LocalElementDofs_AbsOnly(ip) ==
    Flatten([iel \in 1 .. Len(part.element_map[ip]) |->
        [i \in 1 .. Len(fes[ip].ElementDofs[iel]) |->
            IF fes[ip].ElementDofs[iel][i] >= 0 THEN fes[ip].ElementDofs[iel][i]
            ELSE 0 - fes[ip].ElementDofs[iel][i]]])

\* the decoded element dofs of subdomain ip in the order step 4 walks them
LocalElementDofs(ip) ==
    Flatten([iel \in 1 .. Len(part.element_map[ip]) |->
        [i \in 1 .. Len(fes[ip].ElementDofs[iel]) |-> DecodeDof(fes[ip].ElementDofs[iel][i])]])

\* 4. SubdomainGTrueDofs[ip][edof] = global_tdofs[ip][k]; k++  (the last write stays)
BuildSubdomainGTrueDofs(ip, glob, junk) ==
    LET E == LocalElementDofs(ip)
    IN  [d \in 1 .. fes[ip].TrueVSize |->
            LET ks == {k \in 1 .. Len(E) : E[k] = d - 1}
            IN  IF ks = {} THEN junk
                ELSE ReadAt(glob, (CHOOSE k \in ks : \A m \in ks : m <= k) - 1, junk)]

SetupA_Extract(p) ==
    /\ pc[p] = At_("A", "extract")
    /\ \E junk \in Junk :
         LET glob == A_ExtractFrom(recvbuf[p], 0, NoLists)
         IN  /\ global_tdofs' = [global_tdofs EXCEPT ![p] = glob]
             /\ SubdomainGTrueDofs' = [SubdomainGTrueDofs EXCEPT ![p] =
                    [ip \in Subdomains |->
                        IF p # subdomain_rank[ip] THEN <<>>
                        ELSE BuildSubdomainGTrueDofs(ip, glob[ip], junk)]]
    /\ pc' = [pc EXCEPT ![p] = At_("B", "count")]
    /\ UNCHANGED <<inputVars, fctVars, unitVars, xferVars, wsVars, local_tdofs, SubdomainLTrueDofs, vecVars>>

----------------------------------------------------------------------------
(* SubdomainToGlobalMapsSetup, phase B: the host rank sends every list to  *)
(* the ranks that own some of its true dofs                                *)

\* ranks_marker of subdomain ip on its host p
RanksMarker(p, ip) ==
    {get_rank(SubdomainGTrueDofs[p][ip][i], tdof_offsets) : i \in 1 .. Len(SubdomainGTrueDofs[p][ip])}

B_SendCount(p) ==
    [irank \in Ranks |->
        SumSeq([k \in 1 .. part.nrsubdomains |->
            IF p = subdomain_rank[k - 1] /\ irank \in RanksMarker(p, k - 1)
            THEN 2 + Len(SubdomainGTrueDofs[p][k - 1]) ELSE 0])]

SetupB_Count(p) ==
    /\ pc[p] = At_("B", "count")
    /\ send_count' = [send_count EXCEPT ![p] = B_SendCount(p)]
    /\ send_displ' = [send_displ EXCEPT ![p] = ZeroCounts]
    /\ recv_count' = [recv_count EXCEPT ![p] = ZeroCounts]
    /\ recv_displ' = [recv_displ EXCEPT ![p] = ZeroCounts]
    /\ pc' = [pc EXCEPT ![p] = At_("B", "alltoall")]
    /\ UNCHANGED <<inputVars, fctVars, unitVars, xferVars, sendbuf, recvbuf, mapVars, vecVars>>

\* for ip, for irank: the tuple of subdomain ip into the segment of irank
RECURSIVE B_FillFrom(_, _, _, _, _, _)
B_FillFrom(p, ip, irank, displ, buf, soffs) ==
    IF ip >= part.nrsubdomains THEN buf
    ELSE IF irank >= num_procs \/ p # subdomain_rank[ip]
         THEN B_FillFrom(p, ip + 1, 0, displ, buf, soffs)
    ELSE LET ndofs == Len(SubdomainGTrueDofs[p][ip])
             j     == displ[irank] + soffs[irank]
         IN  IF irank \in RanksMarker(p, ip)
             THEN B_FillFrom(p, ip, irank + 1, displ,
                      WriteAt(buf, j, <<ip, ndofs>> \o SubdomainGTrueDofs[p][ip]),
                      [soffs EXCEPT ![irank] = @ + 2 + ndofs])
             ELSE B_FillFrom(p, ip, irank + 1, displ, buf, soffs)

SetupB_Fill(p) ==
    /\ pc[p] = At_("B", "fill")
    /\ send_displ' = [send_displ EXCEPT ![p] = Displ(send_count[p])]
    /\ recv_displ' = [recv_displ EXCEPT ![p] = Displ(recv_count[p])]
    /\ sendbuf' = [sendbuf EXCEPT ![p] =
                      B_FillFrom(p, 0, 0, Displ(send_count[p]), Zeros(Sum(send_count[p])), ZeroCounts)]
    /\ pc' = [pc EXCEPT ![p] = At_("B", "alltoallv")]
    /\ UNCHANGED <<inputVars, fctVars, unitVars, xferVars, send_count, recv_count, recvbuf, mapVars, vecVars>>

\* every dof of a received tuple kept, whoever owns it
OwnedBy_All(p, tdofs) == tdofs

\* the dofs of one received tuple that rank p owns
OwnedBy(p, tdofs) == SelectSeq(tdofs, LAMBDA tdof : get_rank(tdof, tdof_offsets) = p)

\* while (k < rbuff_size): a rank that is not the host keeps the whole list in
\* SubdomainGTrueDofs, every rank keeps the dofs it owns in SubdomainLTrueDofs
RECURSIVE B_ExtractFrom(_, _, _, _, _)
B_ExtractFrom(p, buf, k, G, L) ==
    IF k >= Len(buf) THEN [G |-> G, L |-> L]
    ELSE LET ip    == At(buf, k)
             ndofs == At(buf, k + 1)
             tdofs == SubSeq(buf, k + 3, k + 2 + ndofs)
         IN  B_ExtractFrom(p, buf, k + 2 + ndofs,
                 IF p # subdomain_rank[ip] THEN [G EXCEPT ![ip] = @ \o tdofs] ELSE G,
                 [L EXCEPT ![ip] = @ \o OwnedBy(p, tdofs)])

SetupB_Extract(p) ==
    /\ pc[p] = At_("B", "extract")
    /\ LET r == B_ExtractFrom(p, recvbuf[p], 0, SubdomainGTrueDofs[p], NoLists)
       IN  /\ SubdomainGTrueDofs' = [SubdomainGTrueDofs EXCEPT ![p] = r.G]
           /\ SubdomainLTrueDofs' = [SubdomainLTrueDofs EXCEPT ![p] = r.L]
    /\ pc' = [pc EXCEPT ![p] = At_("R", "ready")]
    /\ UNCHANGED <<inputVars, fctVars, unitVars, xferVars, wsVars, local_tdofs, global_tdofs, vecVars>>

----------------------------------------------------------------------------
(* The two transfer operators.  Both walk a list of (rank, value) items    *)
(* and place item after item in the segment of its rank, and both read a   *)
(* receive buffer back rank segment by rank segment.                       *)

\* int j = displ[rank] + soffs[rank]; soffs[rank]++; sendbuf[j] = value;
RECURSIVE PackByRank(_, _, _, _, _)
PackByRank(items, n, displ, buf, soffs) ==
    IF n > Len(items) THEN buf
    ELSE LET rank == items[n][1]
             j    == displ[rank] + soffs[rank]
         IN  PackByRank(items, n + 1, displ, WriteAt(buf, j, <<items[n][2]>>),
                        [soffs EXCEPT ![rank] = @ + 1])

\* int k = displ[rank] + roffs[rank]; roffs[rank]++; value = recvbuf[k];
RECURSIVE UnpackByRank(_, _, _, _, _, _, _)
UnpackByRank(keys, n, displ, buf, roffs, acc, junk) ==
    IF n > Len(keys) THEN [vals |-> acc, roffs |-> roffs]
    ELSE LET rank == keys[n]
             k    == displ[rank] + roffs[rank]
         IN  UnpackByRank(keys, n + 1, displ, buf, [roffs EXCEPT ![rank] = @ + 1],
                          Append(acc, ReadAt(buf, k, junk)), junk)

CountByRank(keys) == [r \in Ranks |-> Cardinality({n \in 1 .. Len(keys) : keys[n] = r})]

\* a call of one of the two operators on every rank
StartCall ==
    /\ AllAt("R", "ready")
    /\ calls < MaxCalls
    /\ \E ph \in {"G", "S"} : pc' = [p \in Ranks |-> At_(ph, "count")]
    /\ yPre' = y
    /\ calls' = calls + 1
    /\ UNCHANGED <<inputVars, fctVars, unitVars, xferVars, wsVars, mapVars, y, x>>

----------------------------------------------------------------------------
(* DofMaps::GlobalToSubdomains(y, x) *)

\* for ip, for i: the host rank of subdomain ip, once per SubdomainLTrueDofs[ip][i]
G_SendKeys(p) ==
    Flatten([k \in 1 .. part.nrsubdomains |->
        [i \in 1 .. Len(SubdomainLTrueDofs[p][k - 1]) |-> subdomain_rank[k - 1]]])

\* G_SendItems with the rank's offset not subtracted from the true dof
G_SendItems_NoOffset(p) ==
    Flatten([k \in 1 .. part.nrsubdomains |->
        [i \in 1 .. Len(SubdomainLTrueDofs[p][k - 1]) |->
            << subdomain_rank[k - 1],
               ReadAt(y[p], SubdomainLTrueDofs[p][k - 1][i], -1) >>]])

\* sendbuf[j] = y[tdof - mytoffset]
G_SendItems(p) ==
    Flatten([k \in 1 .. part.nrsubdomains |->
        [i \in 1 .. Len(SubdomainLTrueDofs[p][k - 1]) |->
            << subdomain_rank[k - 1],
               At(y[p], SubdomainLTrueDofs[p][k - 1][i] - pfes[p].MyTDofOffset) >>]])

G2S_Count(p) ==
    /\ pc[p] = At_("G", "count")
    /\ send_count' = [send_count EXCEPT ![p] = CountByRank(G_SendKeys(p))]
    /\ send_displ' = [send_displ EXCEPT ![p] = ZeroCounts]
    /\ recv_count' = [recv_count EXCEPT ![p] = ZeroCounts]
    /\ recv_displ' = [recv_displ EXCEPT ![p] = ZeroCounts]
    /\ pc' = [pc EXCEPT ![p] = At_("G", "alltoall")]
    /\ UNCHANGED <<inputVars, fctVars, unitVars, xferVars, sendbuf, recvbuf, mapVars, vecVars>>

G2S_Fill(p) ==
    /\ pc[p] = At_("G", "fill")
    /\ send_displ' = [send_displ EXCEPT ![p] = Displ(send_count[p])]
    /\ recv_displ' = [recv_displ EXCEPT ![p] = Displ(recv_count[p])]
    /\ sendbuf' = [sendbuf EXCEPT ![p] =
                      PackByRank(G_SendItems(p), 1, Displ(send_count[p]),
                                 Zeros(Sum(send_count[p])), ZeroCounts)]
    /\ pc' = [pc EXCEPT ![p] = At_("G", "alltoallv")]
    /\ UNCHANGED <<inputVars, fctVars, unitVars, xferVars, send_count, recv_count, recvbuf, mapVars, vecVars>>

\* for ip hosted by p, for i: the rank owning SubdomainGTrueDofs[ip][i]
G_RecvKeys(p, ip) ==
    [i \in 1 .. Len(SubdomainGTrueDofs[p][ip]) |->
        get_rank(SubdomainGTrueDofs[p][ip][i], tdof_offsets)]

\* x[ip][i] = recvbuf[recv_displ[tdof_rank] + roffs[tdof_rank]++], roffs running
\* on from subdomain to subdomain
RECURSIVE G_ExtractFrom(_, _, _, _, _)
G_ExtractFrom(p, ip, roffs, acc, junk) ==
    IF ip >= part.nrsubdomains THEN acc
    ELSE IF p # subdomain_rank[ip]
         THEN G_ExtractFrom(p, ip + 1, roffs, [acc EXCEPT ![ip] = <<>>], junk)
    ELSE LET r == UnpackByRank(G_RecvKeys(p, ip), 1, recv_displ[p], recvbuf[p], roffs, <<>>, junk)
         IN  G_ExtractFrom(p, ip + 1, r.roffs, [acc EXCEPT ![ip] = r.vals], junk)

G2S_Extract(p) ==
    /\ pc[p] = At_("G", "extract")
    /\ \E junk \in Junk :
          x' = [x EXCEPT ![p] = G_ExtractFrom(p, 0, ZeroCounts, NoLists, junk)]
    /\ pc' = [pc EXCEPT ![p] = At_("G", "done")]
    /\ UNCHANGED <<inputVars, fctVars, unitVars, xferVars, wsVars, mapVars, y, yPre, calls>>

----------------------------------------------------------------------------
(* DofMaps::SubdomainsToGlobal(x, y) *)

\* for ip hosted by p, for i: (rank owning SubdomainGTrueDofs[ip][i], x[ip][i])
S_SendItems(p) ==
    Flatten([k \in 1 .. part.nrsubdomains |->
        IF p # subdomain_rank[k - 1] THEN <<>>
        ELSE [i \in 1 .. Len(SubdomainGTrueDofs[p][k - 1]) |->
                << get_rank(SubdomainGTrueDofs[p][k - 1][i], tdof_offsets),
                   ReadAt(x[p][k - 1], i - 1, -1) >>]])

S2G_Count(p) ==
    /\ pc[p] = At_("S", "count")
    /\ send_count' = [send_count EXCEPT ![p] =
                         CountByRank([n \in 1 .. Len(S_SendItems(p)) |-> S_SendItems(p)[n][1]])]
    /\ send_displ' = [send_displ EXCEPT ![p] = ZeroCounts]
    /\ recv_count' = [recv_count EXCEPT ![p] = ZeroCounts]
    /\ recv_displ' = [recv_displ EXCEPT ![p] = ZeroCounts]
    /\ pc' = [pc EXCEPT ![p] = At_("S", "alltoall")]
    /\ UNCHANGED <<inputVars, fctVars, unitVars, xferVars, sendbuf, recvbuf, mapVars, vecVars>>

S2G_Fill(p) ==
    /\ pc[p] = At_("S", "fill")
    /\ send_displ' = [send_displ EXCEPT ![p] = Displ(send_count[p])]
    /\ recv_displ' = [recv_displ EXCEPT ![p] = Displ(recv_count[p])]
    /\ sendbuf' = [sendbuf EXCEPT ![p] =
                      PackByRank(S_SendItems(p), 1, Displ(send_count[p]),
                                 Zeros(Sum(send_count[p])), ZeroCounts)]
    /\ pc' = [pc EXCEPT ![p] = At_("S", "alltoallv")]
    /\ UNCHANGED <<inputVars, fctVars, unitVars, xferVars, send_count, recv_count, recvbuf, mapVars, vecVars>>

\* for ip, for i: (k = SubdomainLTrueDofs[ip][i] - mytoffset, host rank of ip)
S_RecvSlots(p) ==
    Flatten([k \in 1 .. part.nrsubdomains |->
        [i \in 1 .. Len(SubdomainLTrueDofs[p][k - 1]) |->
            << SubdomainLTrueDofs[p][k - 1][i] - pfes[p].MyTDofOffset, subdomain_rank[k - 1] >>]])

\* S_AccumulateFrom with y[k] = recvbuf[j] in place of y[k] += recvbuf[j]
RECURSIVE S_AccumulateFrom_Overwrite(_, _, _, _, _, _)
S_AccumulateFrom_Overwrite(slots, n, displ, buf, roffs, yy) ==
    IF n > Len(slots) THEN yy
    ELSE LET k    == slots[n][1]
             rank == slots[n][2]
             j    == displ[rank] + roffs[rank]
         IN  S_AccumulateFrom_Overwrite(slots, n + 1, displ, buf, [roffs EXCEPT ![rank] = @ + 1],
                                        [yy EXCEPT ![k + 1] = ReadAt(buf, j, -1)])

\* y[k] += recvbuf[recv_displ[rank] + roffs[rank]++]
RECURSIVE S_AccumulateFrom(_, _, _, _, _, _)
S_AccumulateFrom(slots, n, displ, buf, roffs, yy) ==
    IF n > Len(slots) THEN yy
    ELSE LET k    == slots[n][1]
             rank == slots[n][2]
             j    == displ[rank] + roffs[rank]
         IN  S_AccumulateFrom(slots, n + 1, displ, buf, [roffs EXCEPT ![rank] = @ + 1],
                              [yy EXCEPT ![k + 1] = @ + ReadAt(buf, j, -1)])

S2G_Extract(p) ==
    /\ pc[p] = At_("S", "extract")
    /\ y' = [y EXCEPT ![p] =
                S_AccumulateFrom(S_RecvSlots(p), 1, recv_displ[p], recvbuf[p], ZeroCounts, y[p])]
    /\ pc' = [pc EXCEPT ![p] = At_("S", "done")]
    /\ UNCHANGED <<inputVars, fctVars, unitVars, xferVars, wsVars, mapVars, x, yPre, calls>>

\* the call has returned on every rank
Return ==
    /\ \E ph \in {"G", "S"} : AllAt(ph, "done")
    /\ pc' = [p \in Ranks |-> At_("R", "ready")]
    /\ UNCHANGED <<inputVars, fctVars, unitVars, xferVars, wsVars, mapVars, vecVars>>

NextBridge ==
    \/ \E p \in Ranks : SetupA_Count(p)
    \/ \E p \in Ranks : SetupA_Fill(p)
    \/ \E p \in Ranks : SetupA_Extract(p)
    \/ \E p \in Ranks : SetupB_Count(p)
    \/ \E p \in Ranks : SetupB_Fill(p)
    \/ \E p \in Ranks : SetupB_Extract(p)
    \/ Alltoall
    \/ Alltoallv
    \/ StartCall
    \/ \E p \in Ranks : G2S_Count(p)
    \/ \E p \in Ranks : G2S_Fill(p)
    \/ \E p \in Ranks : G2S_Extract(p)
    \/ \E p \in Ranks : S2G_Count(p)
    \/ \E p \in Ranks : S2G_Fill(p)
    \/ \E p \in Ranks : S2G_Extract(p)
    \/ Return

SpecBridge == InitBridge /\ [][NextBridge]_vars

----------------------------------------------------------------------------
(* SubdomainToSubdomainMapsSetup: the overlap element and dof lists.       *)
(* Lengths are held in half cells, so that element centres are integers.   *)

nrneighbors == IF dim = 2 THEN 9 ELSE 27

\* a Vector* : nullptr, or a live Vector with its entries
NullVector == [live |-> FALSE, data |-> <<>>]
NewVector(data) == [live |-> TRUE, data |-> data]

\* Mesh::GetBoundingBox of subdomain_mesh[l], doubled
GetBoundingBox2(l) ==
    LET c == part.center2[l]
    IN  [ pmin |-> [a \in 1 .. 3 |->
                      (CHOOSE v \in {c[m][a] : m \in DOMAIN c} :
                          \A m \in DOMAIN c : v <= c[m][a]) - 1],
          pmax |-> [a \in 1 .. 3 |->
                      (CHOOSE v \in {c[m][a] : m \in DOMAIN c} :
                          \A m \in DOMAIN c : v >= c[m][a]) + 1] ]

\* NegPos with the positive side widened by OvlpNlayers cells only
NegPos_OneLayerPos(ijk, bb, center2) ==
    LET h2      == 2 * part.MeshSize
        nlayers == 2 * part.OvlpNlayers
    IN  [ neg |-> [d \in 1 .. dim |->
                     ijk[d] > 0 /\ center2[d] < bb.pmin[d] + (h2 * nlayers)],
          pos |-> [d \in 1 .. dim |->
                     ijk[d] < nxyz[d] - 1
                     /\ center2[d] > bb.pmax[d] - (h2 * part.OvlpNlayers)] ]

\* neg[] and pos[] of an element with doubled centre center2, in the
\* subdomain with grid coordinates ijk and doubled bounding box bb
NegPos(ijk, bb, center2) ==
    LET h2      == 2 * part.MeshSize
        nlayers == 2 * part.OvlpNlayers
    IN  [ neg |-> [d \in 1 .. dim |->
                     ijk[d] > 0 /\ center2[d] < bb.pmin[d] + (h2 * nlayers)],
          pos |-> [d \in 1 .. dim |->
                     ijk[d] < nxyz[d] - 1 /\ center2[d] > bb.pmax[d] - (h2 * nlayers)] ]

\* AddElementToOvlpLists without the `continue` on pos[0]
AddElementToOvlpLists_NoPosSkip(neg, pos) ==
    LET kbeg == IF dim = 2 THEN 0 ELSE -1
        kend == IF dim = 2 THEN 0 ELSE 1
        ijkOf(n) == << ((n - 1) % 3) - 1, (((n - 1) \div 3) % 3) - 1, ((n - 1) \div 9) + kbeg >>
        kept(t) ==
            /\ ~(dim = 3 /\ t[3] = -1 /\ ~neg[3])
            /\ ~(dim = 3 /\ t[3] = 1 /\ ~pos[3])
            /\ ~(t[2] = -1 /\ ~neg[2])
            /\ ~(t[2] = 1 /\ ~pos[2])
            /\ ~(t[1] = -1 /\ ~neg[1])
            /\ ~(t[1] = 0 /\ t[2] = 0 /\ t[3] = 0)
        ids(all) == [n \in 1 .. Len(all) |->
                       GetDirectionId(<< all[n][1], all[n][2],
                                         IF dim = 2 THEN -1 ELSE all[n][3] >>)]
    IN  ids(SelectSeq([n \in 1 .. 9 * ((kend - kbeg) + 1) |-> ijkOf(n)], kept))

\* the DirIds whose list the element is appended to, in the order of the loops
AddElementToOvlpLists(neg, pos) ==
    LET kbeg == IF dim = 2 THEN 0 ELSE -1
        kend == IF dim = 2 THEN 0 ELSE 1
        ijkOf(n) == << ((n - 1) % 3) - 1, (((n - 1) \div 3) % 3) - 1, ((n - 1) \div 9) + kbeg >>
        kept(t) ==
            /\ ~(dim = 3 /\ t[3] = -1 /\ ~neg[3])
            /\ ~(dim = 3 /\ t[3] = 1 /\ ~pos[3])
            /\ ~(t[2] = -1 /\ ~neg[2])
            /\ ~(t[2] = 1 /\ ~pos[2])
            /\ ~(t[1] = -1 /\ ~neg[1])
            /\ ~(t[1] = 1 /\ ~pos[1])
            /\ ~(t[1] = 0 /\ t[2] = 0 /\ t[3] = 0)
        ids(all) == [n \in 1 .. Len(all) |->
                       GetDirectionId(<< all[n][1], all[n][2],
                                         IF dim = 2 THEN -1 ELSE all[n][3] >>)]
    IN  ids(SelectSeq([n \in 1 .. 9 * ((kend - kbeg) + 1) |-> ijkOf(n)], kept))

\* OvlpElems[l] of an owned subdomain
ComputeOvlpElems(l) ==
    LET nel == Len(part.center2[l])
        add(np) == AddElementToOvlpLists(np.neg, np.pos)
        dirsOf(ijk, bb) == [m \in 1 .. nel |-> add(NegPos(ijk, bb, part.center2[l][m]))]
        lists(dirs) ==
            [d \in 0 .. nrneighbors - 1 |->
                Flatten([m \in 1 .. nel |->
                            [n \in 1 .. Len(SelectSeq(dirs[m], LAMBDA id : id = d)) |-> m - 1]])]
    IN  lists(dirsOf(GetSubdomainijk(l, nxyz), GetBoundingBox2(l)))

\* ComputeOvlpTdofs with tdof_marker cleared once for the subdomain rather
\* than once for every direction
ComputeOvlpTdofs_MarkerKept(l, elems) ==
    [d \in 0 .. nrneighbors - 1 |->
        LET dofsOf(dd) ==
                Flatten([n \in 1 .. Len(elems[dd]) |->
                            LET ElemDofs == fes[l].ElementDofs[elems[dd][n] + 1]
                            IN  [i \in 1 .. Len(ElemDofs) |-> DecodeDof(ElemDofs[i])]])
            earlier == Flatten([dd \in 1 .. d |-> dofsOf(dd - 1)])
            all     == FirstOccurrences(earlier \o dofsOf(d), <<>>)
            nEarly  == Len(FirstOccurrences(earlier, <<>>))
        IN  SubSeq(all, nEarly + 1, Len(all))]

\* OvlpTDofs[l] of an owned subdomain, from its OvlpElems[l]
ComputeOvlpTdofs(l, elems) ==
    [d \in 0 .. nrneighbors - 1 |->
        FirstOccurrences(
            Flatten([n \in 1 .. Len(elems[d]) |->
                        LET ElemDofs == fes[l].ElementDofs[elems[d][n] + 1]
                        IN  [i \in 1 .. Len(ElemDofs) |-> DecodeDof(ElemDofs[i])]]),
            <<>>)]

SubdomainToSubdomainMapsSetup(p) ==
    /\ tpc[p] = "setup"
    /\ OvlpElems' = [l \in Subdomains |->
                        IF subdomain_rank[l] = p THEN ComputeOvlpElems(l) ELSE OvlpElems[l]]
    /\ OvlpTDofs' = [l \in Subdomains |->
                        IF subdomain_rank[l] = p
                        THEN ComputeOvlpTdofs(l, OvlpElems'[l]) ELSE OvlpTDofs[l]]
    /\ OvlpSol' = [l \in Subdomains |->
                      IF subdomain_rank[l] = p
                      THEN [d \in 0 .. nrneighbors - 1 |-> NullVector] ELSE OvlpSol[l]]
    /\ tpc' = [tpc EXCEPT ![p] = "ready"]
    /\ UNCHANGED <<inputVars, fctVars, unitVars, bridgeVars, callVars, reqVars, nOvlpSol, tcalls>>

----------------------------------------------------------------------------
(* TransferToNeighbors *)

\* the (is, d) iterations that get past every `continue`, in loop order;
\* zSlots tells whether the third grid coordinate takes part
SlotsWith(ids, zSlots) ==
    LET slot(is, d) ==
            LET i0 == ids[is + 1]
                ijk == GetSubdomainijk(i0, nxyz)
                directions == GetDirectionijk(d)
                i == ijk[1] + directions[1]
                j == ijk[2] + directions[2]
                k == IF zSlots THEN ijk[3] + directions[3] ELSE 0
            IN  [ is |-> is, i0 |-> i0, d |-> d,
                  skip |-> \/ dim = 2 /\ directions[1] = 0 /\ directions[2] = 0
                           \/ dim = 3 /\ directions[1] = 0 /\ directions[2] = 0
                                      /\ directions[3] = 0
                           \/ i < 0 \/ i >= nxyz[1]
                           \/ j < 0 \/ j >= nxyz[2]
                           \/ k < 0 \/ k >= nxyz[3],
                  i1 |-> GetSubdomainId(nxyz, << i, j, k >>),
                  d1 |-> GetDirectionId([a \in 1 .. 3 |->
                                            IF a <= dim THEN 0 - directions[a] ELSE -1]) ]
    IN  SelectSeq([n \in 1 .. Len(ids) * nrneighbors |->
                      slot((n - 1) \div nrneighbors, (n - 1) % nrneighbors)],
                  LAMBDA s : ~s.skip)

Slots_NoZ(ids) == SlotsWith(ids, FALSE)
Slots(ids) == SlotsWith(ids, dim = 3)

\* the iterations in which rank p posts a send, and those in which it posts a receive
SendSlots(p, ids) == SelectSeq(Slots(ids), LAMBDA s : subdomain_rank[s.i0] = p)
RecvSlots_BySource(p, ids) == SelectSeq(Slots(ids), LAMBDA s : subdomain_rank[s.i0] = p)
RecvSlots(p, ids) == SelectSeq(Slots(ids), LAMBDA s : subdomain_rank[s.i1] = p)

\* the tag without the source subdomain
Tag_DirectionOnly(s) == s.d

\* line 325: int tag = i0 * nrneighbors + d
Tag(s) == (s.i0 * nrneighbors) + s.d

\* x[i0]: the entry of the argument array the send reads; an index past the
\* array yields whatever lies behind it
XPointer(p, i0) ==
    IF i0 < Len(xs[p]) THEN [wild |-> FALSE, ptr |-> xs[p][i0 + 1]]
    ELSE [wild |-> TRUE, ptr |-> NullVector]

\* Vector::GetSubVector(dofs, out); entries past the vector are unwritten memory
GetSubVector(v, dofs, junk) == [n \in 1 .. Len(dofs) |-> ReadAt(v, dofs[n], junk)]

\* Vector::SetSubVector(dofs, values) on v
RECURSIVE SetSubVector(_, _, _, _, _)
SetSubVector(v, dofs, values, n, junk) ==
    IF n > Len(dofs) THEN v
    ELSE SetSubVector(
            IF 0 <= dofs[n] /\ dofs[n] < Len(v)
            THEN [v EXCEPT ![dofs[n] + 1] = ReadAt(values, n - 1, junk)] ELSE v,
            dofs, values, n + 1, junk)

\* lines 291-350: the posting pass of rank p.  The constructor ends with the
\* collectives of SubdomainToGlobalMapsSetup, so no rank is here before every
\* rank has built its overlap lists.  ub is what the build does with a read
\* through a pointer taken from behind the argument array
PostingPass(p) ==
    /\ tpc[p] = "ready"
    /\ \A q \in Ranks : tpc[q] # "setup"
    /\ \E junk \in Junk, ub \in IF \E is \in 1 .. Len(SubdomainIds) :
                                      /\ subdomain_rank[SubdomainIds[is]] = p
                                      /\ XPointer(p, SubdomainIds[is]).wild
                                 THEN {"fault", "junk"} ELSE {"junk"} :
         LET xp(s) == XPointer(p, s.i0)
             crash(sends) == \E n \in 1 .. Len(sends) :
                                \/ ~xp(sends[n]).wild /\ ~xp(sends[n]).ptr.live
                                \/ xp(sends[n]).wild /\ ub = "fault"
             fill(sends) == [n \in 1 .. Len(sends) |->
                               GetSubVector(xp(sends[n]).ptr.data,
                                            OvlpTDofs[sends[n].i0][sends[n].d], junk)]
             post(sends, recvs, sbuf) ==
                 IF crash(sends)
                 THEN /\ tpc' = [tpc EXCEPT ![p] = "fault"]
                      /\ UNCHANGED reqVars
                 ELSE /\ tpc' = [tpc EXCEPT ![p] = "posted"]
                      /\ send_buffer' = [send_buffer EXCEPT ![p] = sbuf]
                      /\ send_requests' = [send_requests EXCEPT ![p] =
                            [n \in 1 .. Len(sends) |->
                                [ rank  |-> subdomain_rank[sends[n].i1],
                                  tag   |-> Tag(sends[n]),
                                  count |-> Len(OvlpTDofs[sends[n].i0][sends[n].d]) ]]]
                      /\ net' = net \o
                            [n \in 1 .. Len(sends) |->
                                [ src  |-> p, call |-> tcalls[p], seq |-> n,
                                  dest |-> subdomain_rank[sends[n].i1],
                                  tag  |-> Tag(sends[n]),
                                  data |-> sbuf[n] ]]
                      /\ recv_buffer' = [recv_buffer EXCEPT ![p] =
                            [n \in 1 .. Len(recvs) |->
                                [i \in 1 .. Len(OvlpTDofs[recvs[n].i1][recvs[n].d1]) |-> junk]]]
                      /\ recv_requests' = [recv_requests EXCEPT ![p] =
                            [n \in 1 .. Len(recvs) |->
                                [ rank  |-> subdomain_rank[recvs[n].i0],
                                  tag   |-> Tag(recvs[n]),
                                  count |-> Len(OvlpTDofs[recvs[n].i1][recvs[n].d1]) ]]]
             pass(sends, recvs) == post(sends, recvs, IF crash(sends) THEN <<>> ELSE fill(sends))
         IN  pass(SendSlots(p, SubdomainIds), RecvSlots(p, SubdomainIds))
    /\ UNCHANGED <<inputVars, fctVars, unitVars, bridgeVars, ovlpVars, OvlpSol, callVars, nOvlpSol, tcalls>>

\* send n of the running call of rank p has met its receive: the message
\* was taken from the network, or it is the earliest message of its source,
\* destination and tag and the destination has posted a receive for it
SendMatched(p, n) ==
    LET mine(m) == net[m].src = p /\ net[m].call = tcalls[p] /\ net[m].seq = n
        q == send_requests[p][n].rank
    IN  \/ ~\E m \in 1 .. Len(net) : mine(m)
        \/ /\ tpc[q] \in {"posted", "sent"}
           /\ \E r \in 1 .. Len(recv_requests[q]) :
                 /\ recv_requests[q][r].rank = p
                 /\ recv_requests[q][r].tag = send_requests[p][n].tag
           /\ \A m \in 1 .. Len(net) : mine(m) =>
                 ~\E m0 \in 1 .. m - 1 : /\ net[m0].src = p
                                         /\ net[m0].dest = q
                                         /\ net[m0].tag = net[m].tag

\* the wait on the sends followed at once by the deletion of the send buffers
WaitallSend_FreesSendBuffers(p) ==
    /\ tpc[p] = "posted"
    /\ \/ protocol = "eager"
       \/ \A n \in 1 .. Len(send_requests[p]) : SendMatched(p, n)
    /\ tpc' = [tpc EXCEPT ![p] = "sent"]
    /\ send_buffer' = [send_buffer EXCEPT ![p] = <<>>]
    /\ UNCHANGED <<inputVars, fctVars, unitVars, bridgeVars, ovlpVars, OvlpSol, callVars,
                   recv_buffer, send_requests, recv_requests, net, nOvlpSol, tcalls>>

\* line 351: MPI_Waitall on the sends returns
WaitallSend(p) ==
    /\ tpc[p] = "posted"
    /\ \/ protocol = "eager"
       \/ \A n \in 1 .. Len(send_requests[p]) : SendMatched(p, n)
    /\ tpc' = [tpc EXCEPT ![p] = "sent"]
    /\ UNCHANGED <<inputVars, fctVars, unitVars, bridgeVars, ovlpVars, OvlpSol, callVars, reqVars, nOvlpSol, tcalls>>

\* the receives of rank p, in posting order, each taking the earliest message
\* of the network with its source and tag: [ok, trunc, net, bufs]
RECURSIVE MatchReceives(_, _, _, _, _)
MatchReceives(p, reqs, n, st, junk) ==
    IF n > Len(reqs) \/ ~st.ok THEN st
    ELSE LET hits == {m \in 1 .. Len(st.net) :
                         /\ st.net[m].dest = p
                         /\ st.net[m].src = reqs[n].rank
                         /\ st.net[m].tag = reqs[n].tag}
         IN  IF hits = {} THEN [st EXCEPT !.ok = FALSE]
             ELSE LET m    == CHOOSE h \in hits : \A g \in hits : h <= g
                      data == st.net[m].data
                  IN  MatchReceives(p, reqs, n + 1,
                         [ ok    |-> TRUE,
                           trunc |-> st.trunc \/ Len(data) > reqs[n].count,
                           net   |-> [i \in 1 .. Len(st.net) - 1 |->
                                        IF i < m THEN st.net[i] ELSE st.net[i + 1]],
                           bufs  |-> Append(st.bufs,
                                        [i \in 1 .. reqs[n].count |-> ReadAt(data, i - 1, junk)]) ],
                         junk)

\* line 352: MPI_Waitall on the receives returns
WaitallRecv(p) ==
    /\ tpc[p] = "sent"
    /\ \E junk \in Junk :
         LET st == MatchReceives(p, recv_requests[p], 1,
                      [ok |-> TRUE, trunc |-> FALSE, net |-> net, bufs |-> <<>>], junk)
         IN  /\ st.ok
             /\ net' = st.net
             /\ recv_buffer' = [recv_buffer EXCEPT ![p] = st.bufs]
             /\ tpc' = [tpc EXCEPT ![p] = IF st.trunc THEN "mpi_error" ELSE "received"]
    /\ UNCHANGED <<inputVars, fctVars, unitVars, bridgeVars, ovlpVars, OvlpSol, callVars,
                   send_buffer, send_requests, recv_requests, nOvlpSol, tcalls>>

\* ExtractFrom taking the receive buffers from the last to the first
RECURSIVE ExtractFrom_LastBufferFirst(_, _, _, _, _)
ExtractFrom_LastBufferFirst(recvs, n, bufs, sol, junk) ==
    IF n > Len(recvs) THEN sol
    ELSE LET i1 == recvs[n].i1
             d1 == recvs[n].d1
         IN  ExtractFrom_LastBufferFirst(recvs, n + 1, bufs,
                [sol EXCEPT ![i1][d1] =
                    NewVector(SetSubVector(Zeros(fes[i1].TrueVSize), OvlpTDofs[i1][d1],
                                           bufs[(Len(recvs) - n) + 1], 1, junk))],
                junk)

\* lines 366-408: OvlpSol after the extraction pass over the receive slots
RECURSIVE ExtractFrom(_, _, _, _, _)
ExtractFrom(recvs, n, bufs, sol, junk) ==
    IF n > Len(recvs) THEN sol
    ELSE LET i1 == recvs[n].i1
             d1 == recvs[n].d1
         IN  ExtractFrom(recvs, n + 1, bufs,
                [sol EXCEPT ![i1][d1] =
                    NewVector(SetSubVector(Zeros(fes[i1].TrueVSize), OvlpTDofs[i1][d1],
                                           bufs[n], 1, junk))],
                junk)

\* lines 354-413: requests and send buffers freed, the received values
\* extracted into fresh OvlpSol vectors, the receive buffers freed
ExtractionPass(p) ==
    /\ tpc[p] = "received"
    /\ \E junk \in Junk :
         LET extract(recvs) ==
                 /\ OvlpSol' = ExtractFrom(recvs, 1, recv_buffer[p], OvlpSol, junk)
                 /\ nOvlpSol' = nOvlpSol + Len(recvs)
         IN  extract(RecvSlots(p, SubdomainIds))
    /\ send_buffer' = [send_buffer EXCEPT ![p] = <<>>]
    /\ recv_buffer' = [recv_buffer EXCEPT ![p] = <<>>]
    /\ send_requests' = [send_requests EXCEPT ![p] = <<>>]
    /\ recv_requests' = [recv_requests EXCEPT ![p] = <<>>]
    /\ tpc' = [tpc EXCEPT ![p] = "done"]
    /\ UNCHANGED <<inputVars, fctVars, unitVars, bridgeVars, ovlpVars, callVars, net, tcalls>>

\* the caller, back from the call, calls again with the same arguments
CallAgain(p) ==
    /\ tpc[p] = "done"
    /\ tcalls[p] + 1 < MaxCalls
    /\ tcalls' = [tcalls EXCEPT ![p] = tcalls[p] + 1]
    /\ tpc' = [tpc EXCEPT ![p] = "ready"]
    /\ UNCHANGED <<inputVars, fctVars, unitVars, bridgeVars, ovlpVars, OvlpSol, callVars, reqVars,
                   nOvlpSol>>

\* worlds the exchange is explored on
TransferWorlds ==
    { [dim |-> 2, ne |-> <<3, 1, 1>>, nxyz |-> <<2, 1, 1>>, ovl |-> 1, sg |-> 1],
      [dim |-> 2, ne |-> <<3, 2, 1>>, nxyz |-> <<2, 2, 1>>, ovl |-> 1, sg |-> 1],
      [dim |-> 3, ne |-> <<3, 1, 2>>, nxyz |-> <<2, 1, 2>>, ovl |-> 1, sg |-> 0] }

\* the id lists a caller passes: all subdomains in order, all subdomains in
\* reverse order, and a single id
IdLists(n) ==
    {Iota(n), [i \in 1 .. n |-> n - i]} \cup {<<a>> : a \in 0 .. n - 1}

InitTransfer ==
    /\ \E w \in TransferWorlds :
         \E sr \in {f \in [0 .. NrSubdomains(w) - 1 -> Ranks] : f[0] = 0} :
            /\ InitInputs(w, [r \in 1 .. num_procs - 1 |-> NumElems(w)], sr)
            /\ SubdomainIds \in IdLists(NrSubdomains(w))
    /\ protocol \in {"eager", "rendezvous"}
    /\ xs = [p \in Ranks |-> [is \in 1 .. Len(SubdomainIds) |->
               IF subdomain_rank[SubdomainIds[is]] = p
               THEN NewVector([i \in 1 .. fes[SubdomainIds[is]].TrueVSize |->
                                  XValue(SubdomainIds[is], i - 1)])
               ELSE NullVector]]
    /\ tpc = [p \in Ranks |-> "setup"]
    /\ OvlpElems = NoLists /\ OvlpTDofs = NoLists /\ OvlpSol = NoLists
    /\ send_buffer = [p \in Ranks |-> <<>>]
    /\ recv_buffer = [p \in Ranks |-> <<>>]
    /\ send_requests = [p \in Ranks |-> <<>>]
    /\ recv_requests = [p \in Ranks |-> <<>>]
    /\ net = <<>>
    /\ nOvlpSol = 0
    /\ tcalls = [p \in Ranks |-> 0]
    /\ MultUnused /\ UnitsUnused
    /\ u = <<>> /\ yH = <<>> /\ yL = <<>> /\ ydot = <<>> /\ bnds = <<>>
    /\ lumpedM = <<>> /\ dt = 0 /\ fctpc = "unused"
    /\ pc = [p \in Ranks |-> At_("R", "unused")]
    /\ send_count = [p \in Ranks |-> ZeroCounts]
    /\ send_displ = [p \in Ranks |-> ZeroCounts]
    /\ recv_count = [p \in Ranks |-> ZeroCounts]
    /\ recv_displ = [p \in Ranks |-> ZeroCounts]
    /\ sendbuf = [p \in Ranks |-> <<>>]
    /\ recvbuf = [p \in Ranks |-> <<>>]
    /\ local_tdofs = [p \in Ranks |-> NoLists]
    /\ global_tdofs = [p \in Ranks |-> NoLists]
    /\ SubdomainGTrueDofs = [p \in Ranks |-> NoLists]
    /\ SubdomainLTrueDofs = [p \in Ranks |-> NoLists]
    /\ y = <<>> /\ x = <<>> /\ yPre = <<>> /\ calls = 0

NextTransfer ==
    \/ \E p \in Ranks : SubdomainToSubdomainMapsSetup(p)
    \/ \E p \in Ranks : PostingPass(p)
    \/ \E p \in Ranks : WaitallSend(p)
    \/ \E p \in Ranks : WaitallRecv(p)
    \/ \E p \in Ranks : ExtractionPass(p)
    \/ \E p \in Ranks : CallAgain(p)

SpecTransfer == InitTransfer /\ [][NextTransfer]_vars

\* line 352 can return: every receive of rank p has a message of its source
\* and tag, counting the receives posted ahead of it for the same source and tag
ReceivesCanComplete(p) ==
    \A n \in 1 .. Len(recv_requests[p]) :
       Cardinality({m \in 1 .. Len(net) : /\ net[m].dest = p
                                          /\ net[m].src = recv_requests[p][n].rank
                                          /\ net[m].tag = recv_requests[p][n].tag})
          >= Cardinality({k \in 1 .. n : /\ recv_requests[p][k].rank = recv_requests[p][n].rank
                                         /\ recv_requests[p][k].tag = recv_requests[p][n].tag})

\* rank p can take a step: the code blocks in the two MPI_Waitall calls only
\* (and, ahead of the first call, in the collectives that end the constructor)
CanStep(p) ==
    \/ tpc[p] \in {"setup", "received"}
    \/ tpc[p] = "ready" /\ \A q \in Ranks : tpc[q] # "setup"
    \/ /\ tpc[p] = "posted"
       /\ \/ protocol = "eager"
          \/ \A n \in 1 .. Len(send_requests[p]) : SendMatched(p, n)
    \/ tpc[p] = "sent" /\ ReceivesCanComplete(p)
    \/ tpc[p] = "done" /\ tcalls[p] + 1 < MaxCalls

\* a step of rank p: the one step of NextTransfer that moves tpc[p]
RankStep(p) ==
    /\ CanStep(p)
    /\ \E pos \in {"ready", "posted", "sent", "received", "done", "fault", "mpi_error"} :
          /\ pos # tpc[p]
          /\ tpc' = [tpc EXCEPT ![p] = pos]

\* every rank is a running process: it takes a step when it can take one,
\* and MPI completes a wait whose requests can complete
SpecTransferLive == SpecTransfer /\ \A p \in Ranks : WF_tpc(RankStep(p))

----------------------------------------------------------------------------
(* ex9: flux-corrected transport.  Vectors are indexed by dofInd = k*nd + j *)
(* and held as sequences; inputs are integers, and a quotient the code     *)
(* forms is kept exact as [num, den] with den > 0.  On such data a flux is *)
(* 0 or at least 1 in size, so the comparisons with eps = 1e-15 are        *)
(* comparisons with 0.                                                     *)

\* the DG space and the sparsity of K: two elements of two dofs on a periodic
\* line, every row holding the dofs of its element and the dof across the face
FCTSpace ==
    [ NE |-> 2, nd |-> 2,
      I  |-> <<0, 3, 6, 9, 12>>,
      J  |-> <<0, 1, 3, 0, 1, 2, 1, 2, 3, 0, 2, 3>> ]

\* the arguments explored: the solution, the two time derivatives, the step
FCTInputs ==
    [ x  : [1 .. 4 -> 0 .. 1],
      yH : [1 .. 4 -> {-1, 1}],
      yL : [1 .. 4 -> -1 .. 1],
      dt : {1, 2} ]

\* SolutionBounds::ComputeFromSparsity
ComputeFromSparsity(K, xv) ==
    LET row(i) == {xv[K.J[k + 1] + 1] : k \in K.I[i + 1] .. K.I[i + 2] - 1}
    IN  [ x_min |-> [i \in 1 .. Len(K.I) - 1 |->
                        CHOOSE v \in row(i - 1) : \A w \in row(i - 1) : v <= w],
          x_max |-> [i \in 1 .. Len(K.I) - 1 |->
                        CHOOSE v \in row(i - 1) : \A w \in row(i - 1) : v >= w] ]

\* uClipped without the clipping
uClipped_HighOrder(dofInd) == u[dofInd + 1] + (dt * yH[dofInd + 1])

\* uClipped(j) for dofInd = k*nd + j
uClipped(dofInd) ==
    Min2(bnds.x_max[dofInd + 1],
         Max2(u[dofInd + 1] + (dt * yH[dofInd + 1]), bnds.x_min[dofInd + 1]))

\* fClipped(j) before the rescaling
fClipped(dofInd) ==
    lumpedM[dofInd + 1] * (uClipped(dofInd) - (u[dofInd + 1] + (dt * yL[dofInd + 1])))

\* sumPos and sumNeg of element k
ElementSums(k) ==
    LET f == [j \in 1 .. FCTSpace.nd |-> fClipped((k * FCTSpace.nd) + (j - 1))]
    IN  [ sumPos |-> SumSeq([j \in 1 .. Len(f) |-> Max2(f[j], 0)]),
          sumNeg |-> SumSeq([j \in 1 .. Len(f) |-> Min2(f[j], 0)]) ]

\* the rescaling left out: every clipped flux is kept as it is
RescaledFlux_NoRescale(f, sums) == [num |-> f, den |-> 1]

\* fClipped(j) after the rescaling, as an exact quotient
RescaledFlux(f, sums) ==
    IF sums.sumPos + sums.sumNeg > 0 /\ f > 0
    THEN [num |-> f * (0 - sums.sumNeg), den |-> sums.sumPos]
    ELSE IF sums.sumPos + sums.sumNeg < 0 /\ f < 0
         THEN [num |-> f * sums.sumPos, den |-> 0 - sums.sumNeg]
         ELSE [num |-> f, den |-> 1]

\* y(dofInd) = yL(dofInd) + fClipped(j) / (dt * lumpedM(dofInd))
ComputeFCTSolution ==
    [i \in 1 .. FCTSpace.NE * FCTSpace.nd |->
        LET fs == RescaledFlux(fClipped(i - 1), ElementSums((i - 1) \div FCTSpace.nd))
            den == fs.den * dt * lumpedM[i]
        IN  [num |-> (yL[i] * den) + fs.num, den |-> den]]

\* fct.bnds.Compute(K, u) with stencil 0, ahead of the step
ComputeBounds ==
    /\ fctpc = "start"
    /\ bnds' = ComputeFromSparsity(FCTSpace, u)
    /\ fctpc' = "bounds"
    /\ UNCHANGED <<inputVars, bridgeVars, xferVars, unitVars,
                   u, yH, yL, ydot, lumpedM, dt, monoType, ywrites>>

\* FE_Evolution::ComputeFCTSolution(x, yH, yL, y)
FCTSolution ==
    /\ fctpc = "bounds"
    /\ ydot' = ComputeFCTSolution
    /\ fctpc' = "fct"
    /\ UNCHANGED <<inputVars, bridgeVars, xferVars, unitVars,
                   u, yH, yL, bnds, lumpedM, dt, monoType, ywrites>>

\* an integer vector as a vector of exact quotients
Quot(v) == [i \in DOMAIN v |-> [num |-> v[i], den |-> 1]]

\* the path with the parity test of line 2044 turned around
MultPath_ParitySwapped(m) ==
    LET run(f, out) == [run |-> f, out |-> out]
    IN  IF m = 0 THEN << run("ComputeHighOrderSolution", "y") >>
        ELSE IF m < 7
             THEN IF m % 2 = 0 THEN << run("ComputeLowOrderSolution", "y") >>
                  ELSE << run("ComputeHighOrderSolution", "yH"),
                          run("ComputeLowOrderSolution", "yL"),
                          run("ComputeFCTSolution", "y") >>
        ELSE IF m = 7 THEN << run("ComputeLowOrderSolution", "y") >>
        ELSE IF m = 8 THEN << run("ComputeLowOrderSolution", "y"),
                              run("ComputeLimitedSolution", "y") >>
        ELSE << >>

\* lines 2038-2066: the routines FE_Evolution::Mult runs for fct.monoType = m,
\* in order, each with the vector it writes
MultPath(m) ==
    LET run(f, out) == [run |-> f, out |-> out]
    IN  IF m = 0 THEN << run("ComputeHighOrderSolution", "y") >>
        ELSE IF m < 7
             THEN IF m % 2 = 1 THEN << run("ComputeLowOrderSolution", "y") >>
                  ELSE IF m % 2 = 0
                       THEN << run("ComputeHighOrderSolution", "yH"),
                               run("ComputeLowOrderSolution", "yL"),
                               run("ComputeFCTSolution", "y") >>
                       ELSE << >>
        ELSE IF m = 7 THEN << run("ComputeLowOrderSolution", "y") >>
        ELSE IF m = 8 THEN << run("ComputeLowOrderSolution", "y"),
                              run("ComputeLimitedSolution", "y") >>
        ELSE << >>

\* y when the routines of path have run.  The linear solves behind the
\* high-order and the low-order routine are not computed: their results are
\* the inputs yH and yL, and the result of ComputeLimitedSolution is kept as
\* a term over the low-order result it starts from
MultResult(path) ==
    IF path = << >> THEN ydot
    ELSE LET last == path[Len(path)].run
         IN  IF last = "ComputeHighOrderSolution" THEN Quot(yH)
             ELSE IF last = "ComputeLowOrderSolution" THEN Quot(yL)
             ELSE IF last = "ComputeFCTSolution" THEN ComputeFCTSolution
             ELSE [limited |-> Quot(yL)]

\* FE_Evolution::Mult(x, y) inside ode_solver->Step; the time loop has
\* computed the bounds ahead of it exactly when 0 < monoType < 7 (line 1549)
Mult(m) ==
    /\ IF 0 < m /\ m < 7 THEN fctpc = "bounds" ELSE fctpc = "start"
    /\ monoType' = m
    /\ ywrites' = MultPath(m)
    /\ ydot' = MultResult(MultPath(m))
    /\ fctpc' = "mult"
    /\ UNCHANGED <<inputVars, bridgeVars, xferVars, unitVars, u, yH, yL, bnds, lumpedM, dt>>

InitFCT ==
    /\ \E in \in FCTInputs : u = in.x /\ yH = in.yH /\ yL = in.yL /\ dt = in.dt
    /\ lumpedM = <<1, 2, 2, 1>>
    /\ bnds = [x_min |-> <<>>, x_max |-> <<>>]
    /\ ydot = <<>>
    /\ fctpc = "start"
    /\ dim = 2 /\ nxyz = <<1, 1, 1>> /\ subdomain_rank = <<>> /\ tdof_offsets = <<>>
    /\ part = <<>> /\ pfes = <<>> /\ fes = <<>>
    /\ pc = [p \in Ranks |-> At_("R", "unused")]
    /\ send_count = <<>> /\ send_displ = <<>> /\ recv_count = <<>> /\ recv_displ = <<>>
    /\ sendbuf = <<>> /\ recvbuf = <<>>
    /\ local_tdofs = <<>> /\ global_tdofs = <<>>
    /\ SubdomainGTrueDofs = <<>> /\ SubdomainLTrueDofs = <<>>
    /\ y = <<>> /\ x = <<>> /\ yPre = <<>> /\ calls = 0
    /\ tpc = [p \in Ranks |-> "unused"]
    /\ OvlpElems = <<>> /\ OvlpTDofs = <<>> /\ OvlpSol = <<>>
    /\ SubdomainIds = <<>> /\ xs = <<>> /\ protocol = "eager"
    /\ send_buffer = <<>> /\ recv_buffer = <<>>
    /\ send_requests = <<>> /\ recv_requests = <<>> /\ net = <<>>
    /\ nOvlpSol = 0
    /\ tcalls = [p \in Ranks |-> 0]
    /\ MultUnused /\ UnitsUnused

NextFCT ==
    \/ ComputeBounds
    \/ FCTSolution
    \/ \E m \in 0 .. 8 : Mult(m)

SpecFCT == InitFCT /\ [][NextFCT]_vars

----------------------------------------------------------------------------
(* get_rank on its own: every offset table ComputeTdofOffsets can gather   *)
(* (non-decreasing, rank 0 starting at 0) against every true dof           *)

BridgeUnused ==
    /\ pc = [p \in Ranks |-> At_("R", "unused")]
    /\ send_count = <<>> /\ send_displ = <<>> /\ recv_count = <<>> /\ recv_displ = <<>>
    /\ sendbuf = <<>> /\ recvbuf = <<>>
    /\ local_tdofs = <<>> /\ global_tdofs = <<>>
    /\ SubdomainGTrueDofs = <<>> /\ SubdomainLTrueDofs = <<>>
    /\ y = <<>> /\ x = <<>> /\ yPre = <<>> /\ calls = 0

TransferUnused ==
    /\ tpc = [p \in Ranks |-> "unused"]
    /\ OvlpElems = <<>> /\ OvlpTDofs = <<>> /\ OvlpSol = <<>>
    /\ SubdomainIds = <<>> /\ xs = <<>> /\ protocol = "eager"
    /\ send_buffer = <<>> /\ recv_buffer = <<>>
    /\ send_requests = <<>> /\ recv_requests = <<>> /\ net = <<>>
    /\ nOvlpSol = 0
    /\ tcalls = [p \in Ranks |-> 0]

FCTUnused ==
    /\ u = <<>> /\ yH = <<>> /\ yL = <<>> /\ ydot = <<>> /\ bnds = <<>>
    /\ lumpedM = <<>> /\ dt = 0 /\ fctpc = "unused"
    /\ MultUnused

\* the tables MPI_Allgather can deliver: one offset per rank, rank 0 at 0
OffsetTables ==
    UNION { {T \in [1 .. n -> 0 .. MaxOffset] :
                /\ T[1] = 0
                /\ \A i \in 1 .. n - 1 : T[i] <= T[i + 1]} : n \in 1 .. MaxTableLen }

InitGetRank ==
    /\ tdof_offsets \in OffsetTables
    /\ tdof_arg \in 0 .. MaxOffset + 1
    /\ rank_ret = NoReturn
    /\ qi = <<>> /\ kernel = NoKernel /\ KernUnused /\ AsmUnused
    /\ dim = 2 /\ nxyz = <<1, 1, 1>> /\ subdomain_rank = <<>>
    /\ part = <<>> /\ pfes = <<>> /\ fes = <<>>
    /\ BridgeUnused /\ TransferUnused /\ FCTUnused

\* a call get_rank(tdof, tdof_offsets)
GetRank ==
    /\ ~rank_ret.returned
    /\ rank_ret' = [returned |-> TRUE, value |-> get_rank(tdof_arg, tdof_offsets)]
    /\ UNCHANGED <<inputVars, bridgeVars, xferVars, fctVars, tdof_arg, qi, kernel, kernVars, asmVars>>

NextGetRank == GetRank

SpecGetRank == InitGetRank /\ [][NextGetRank]_vars

----------------------------------------------------------------------------
(* QuadratureInterpolator::Values<QVectorLayout::byVDIM>: the choice of the *)
(* kernel.  A kernel is named by its mesh dimension and its template       *)
(* arguments <VDIM, D1D, Q1D>; <0, 0, 0> is the generic kernel that takes   *)
(* the three as run-time arguments.                                        *)

\* a | b on non-negative ints
RECURSIVE BitOr(_, _)
BitOr(a, b) ==
    IF a = 0 THEN b
    ELSE IF b = 0 THEN a
    ELSE (IF a % 2 = 1 \/ b % 2 = 1 THEN 1 ELSE 0) + (2 * BitOr(a \div 2, b \div 2))

\* const int id = (dim<<12) | (vdim<<8) | (D1D<<4) | Q1D
KernelId(q) ==
    BitOr(BitOr(BitOr(q.dim * 4096, q.vdim * 256), q.D1D * 16), q.Q1D)

\* the case label 0xabcd
Hex4(a, b, c, d) == (a * 4096) + (b * 256) + (c * 16) + d

\* the case labels of the switch, each with the kernel it returns
KernelCases ==
    << [id |-> Hex4(2, 1, 2, 4), T |-> <<2, 1, 2, 4>>],
       [id |-> Hex4(2, 1, 3, 6), T |-> <<2, 1, 3, 6>>],
       [id |-> Hex4(2, 1, 4, 8), T |-> <<2, 1, 4, 8>>],
       [id |-> Hex4(2, 2, 2, 4), T |-> <<2, 2, 2, 4>>],
       [id |-> Hex4(2, 2, 3, 4), T |-> <<2, 2, 3, 4>>],
       [id |-> Hex4(2, 2, 3, 6), T |-> <<2, 2, 3, 6>>],
       [id |-> Hex4(2, 2, 4, 8), T |-> <<2, 2, 4, 8>>],
       [id |-> Hex4(3, 1, 2, 4), T |-> <<3, 1, 2, 4>>],
       [id |-> Hex4(3, 1, 3, 6), T |-> <<3, 1, 3, 6>>],
       [id |-> Hex4(3, 1, 4, 8), T |-> <<3, 1, 4, 8>>],
       [id |-> Hex4(3, 3, 2, 4), T |-> <<3, 3, 2, 4>>],
       [id |-> Hex4(3, 3, 3, 6), T |-> <<3, 3, 3, 6>>],
       [id |-> Hex4(3, 3, 4, 8), T |-> <<3, 3, 4, 8>>] >>

MD1 == 8
MQ1 == 8

\* what the call runs for the space and rule q, its switch taken on id
ValuesOn(q, id) ==
    IF q.NE = 0 THEN [ran |-> "nothing", T |-> <<>>]
    ELSE IF \E c \in 1 .. Len(KernelCases) : KernelCases[c].id = id
         THEN [ran |-> "specialised",
               T   |-> KernelCases[CHOOSE c \in 1 .. Len(KernelCases) :
                                      KernelCases[c].id = id].T]
    ELSE IF q.D1D > MD1 \/ q.Q1D > MQ1 THEN [ran |-> "abort", T |-> <<>>]
    ELSE IF q.dim = 2 THEN [ran |-> "generic", T |-> <<2, 0, 0, 0>>]
    ELSE IF q.dim = 3 THEN [ran |-> "generic", T |-> <<3, 0, 0, 0>>]
    ELSE [ran |-> "nothing", T |-> <<>>]

\* the spaces and rules explored: meshes of dimension 1 to 3, up to three
\* vector components, 1D dof counts and 1D quadrature sizes on both sides
\* of the limits
QIInputs ==
    [ NE : {0, 1}, dim : {1, 2, 3}, vdim : {1, 2, 3},
      D1D : {2, 3, 4, 5, 8, 9, 18}, Q1D : {4, 6, 8, 9, 36} ]

InitValues ==
    /\ qi \in QIInputs
    /\ kernel = NoKernel /\ KernUnused /\ AsmUnused
    /\ tdof_arg = 0 /\ rank_ret = NoReturn
    /\ dim = 2 /\ nxyz = <<1, 1, 1>> /\ subdomain_rank = <<>> /\ tdof_offsets = <<>>
    /\ part = <<>> /\ pfes = <<>> /\ fes = <<>>
    /\ BridgeUnused /\ TransferUnused /\ FCTUnused

\* lines 229-285
Values ==
    /\ kernel = NoKernel
    /\ kernel' = ValuesOn(qi, KernelId(qi))
    /\ UNCHANGED <<inputVars, bridgeVars, xferVars, fctVars, tdof_arg, rank_ret, qi, kernVars, asmVars>>

NextValues == Values

SpecValues == InitValues /\ [][NextValues]_vars

----------------------------------------------------------------------------
(* EvalByVDim2D and EvalByVDim3D run on a device.  MFEM_FORALL_2D(e, NE, X, *)
(* Y, BZ) starts one block of X x Y x BZ threads for every BZ elements,     *)
(* thread layer z of block k working on element k * BZ + z, and             *)
(* MFEM_FORALL_3D(e, NE, X, Y, Z) one block of X x Y x Z threads for every  *)
(* element; MFEM_SYNC_THREAD is the barrier of the block.  A launch is      *)
(* [dim, VDIM, D1D, Q1D, NBZ, MD1, MQ1, NE, b_, x_]: the template and       *)
(* run-time sizes after `T_D1D ? T_D1D : d1d`, and the two input arrays.    *)
(* A location is <<array, block, index>>; shared arrays start               *)
(* uninitialised, so kmem holds the locations written so far and y.         *)

\* MFEM_FOREACH_THREAD(i, t, N): the indices thread coordinate t takes in a
\* block of extent bdim along that axis
ForeachThread(t, N, bdim) == {i \in 0 .. N - 1 : i % bdim = t}

\* Accumulate with `u = term` in place of `u += term`
Accumulate_Assign(terms) == terms[Len(terms)]

\* u = 0.0; for (i = 0; i < n; ++i) { u += terms[i]; }
Accumulate(terms) == SumSeq(terms)

\* a read of shared or global memory
Load(mem, loc, junk) == IF loc \in DOMAIN mem THEN mem[loc] ELSE junk

\* the threads of a launch
KernelThreads(K) ==
    {t \in [ blk : 0 .. (IF K.dim = 2 THEN (K.NE + K.NBZ - 1) \div K.NBZ ELSE K.NE) - 1,
             x : 0 .. K.Q1D - 1, y : 0 .. K.Q1D - 1,
             z : 0 .. (IF K.dim = 2 THEN K.NBZ ELSE K.Q1D) - 1 ] :
        K.dim = 2 => (t.blk * K.NBZ) + t.z < K.NE}

\* barriers a thread passes: one after the load of B, one after every
\* contraction step of every component
NumPhases(K) == 1 + ((K.dim + 1) * K.VDIM)

\* one s_DD for the whole block, every layer using row 0
SharedDD_RowZero(K, t, dx, dy) == <<"s_DD", t.blk, dx + (K.MD1 * dy)>>

\* DD(dx, dy) of DeviceTensor<2> DD((double*)(s_DD + tidz), MD1, MD1)
SharedDD(K, t, dx, dy) == <<"s_DD", t.blk, (t.z * K.MD1 * K.MD1) + dx + (K.MD1 * dy)>>

\* lines 43-111: what thread t writes (w, location and value) and reads (r)
\* in barrier phase ph
EvalByVDim2D(K, t, ph, mem, junk) ==
    LET e == (t.blk * K.NBZ) + t.z
        c == (ph - 1) \div 3
        B(q, d)    == <<"s_B", t.blk, q + (K.Q1D * d)>>
        DD(dx, dy) == SharedDD(K, t, dx, dy)
        DQ(dy, qx) == <<"s_DQ", t.blk, (t.z * K.MD1 * K.MQ1) + dy + (K.MD1 * qx)>>
        b(q, d)    == At(K.b_, q + (K.Q1D * d))
        X(dx, dy)  == At(K.x_, dx + (K.D1D * (dy + (K.D1D * (c + (K.VDIM * e))))))
        Y(qx, qy)  == <<"y", 0, c + (K.VDIM * (qx + (K.Q1D * (qy + (K.Q1D * e)))))>>
        inX(N)     == ForeachThread(t.x, N, K.Q1D)
        inY(N)     == ForeachThread(t.y, N, K.Q1D)
        all        == 0 .. K.D1D - 1
    IN  CASE ph = 0 ->
               [ w |-> IF t.z = 0
                       THEN {<<B(q, d), b(q, d)>> : d \in inY(K.D1D), q \in inX(K.Q1D)}
                       ELSE {},
                 r |-> {} ]
          [] ph > 0 /\ (ph - 1) % 3 = 0 ->
               [ w |-> {<<DD(dx, dy), X(dx, dy)>> : dx \in inX(K.D1D), dy \in inY(K.D1D)},
                 r |-> {} ]
          [] ph > 0 /\ (ph - 1) % 3 = 1 ->
               [ w |-> {<<DQ(dy, qx),
                          Accumulate([n \in 1 .. K.D1D |-> LET dx == n - 1 IN
                              Load(mem, B(qx, dx), junk) * Load(mem, DD(dx, dy), junk)])>> :
                           dy \in inY(K.D1D), qx \in inX(K.Q1D)},
                 r |-> UNION {{B(qx, dx), DD(dx, dy)} :
                                 dx \in all, dy \in inY(K.D1D), qx \in inX(K.Q1D)} ]
          [] OTHER ->
               [ w |-> {<<Y(qx, qy),
                          Accumulate([n \in 1 .. K.D1D |-> LET dy == n - 1 IN
                              Load(mem, DQ(dy, qx), junk) * Load(mem, B(qy, dy), junk)])>> :
                           qy \in inY(K.Q1D), qx \in inX(K.Q1D)},
                 r |-> UNION {{DQ(dy, qx), B(qy, dy)} :
                                 dy \in all, qy \in inY(K.Q1D), qx \in inX(K.Q1D)} ]

\* lines 132-225: the same for the 3D kernel; DDD and DQQ lie in sm0, DDQ in sm1
EvalByVDim3D(K, t, ph, mem, junk) ==
    LET e == t.blk
        c == (ph - 1) \div 4
        B(q, d)         == <<"s_B", t.blk, q + (K.Q1D * d)>>
        DDD(dx, dy, dz) == <<"sm0", t.blk, dx + (K.MD1 * (dy + (K.MD1 * dz)))>>
        DDQ(dz, dy, qx) == <<"sm1", t.blk, dz + (K.MD1 * (dy + (K.MD1 * qx)))>>
        DQQ(dz, qy, qx) == <<"sm0", t.blk, dz + (K.MD1 * (qy + (K.MQ1 * qx)))>>
        b(q, d)         == At(K.b_, q + (K.Q1D * d))
        X(dx, dy, dz)   ==
            At(K.x_, dx + (K.D1D * (dy + (K.D1D * (dz + (K.D1D * (c + (K.VDIM * e))))))))
        Y(qx, qy, qz)   ==
            <<"y", 0, c + (K.VDIM * (qx + (K.Q1D * (qy + (K.Q1D * (qz + (K.Q1D * e)))))))>>
        inX(N)          == ForeachThread(t.x, N, K.Q1D)
        inY(N)          == ForeachThread(t.y, N, K.Q1D)
        inZ(N)          == ForeachThread(t.z, N, K.Q1D)
        all             == 0 .. K.D1D - 1
    IN  CASE ph = 0 ->
               [ w |-> IF t.z = 0
                       THEN {<<B(q, d), b(q, d)>> : d \in inY(K.D1D), q \in inX(K.Q1D)}
                       ELSE {},
                 r |-> {} ]
          [] ph > 0 /\ (ph - 1) % 4 = 0 ->
               [ w |-> {<<DDD(dx, dy, dz), X(dx, dy, dz)>> :
                           dz \in inZ(K.D1D), dy \in inY(K.D1D), dx \in inX(K.D1D)},
                 r |-> {} ]
          [] ph > 0 /\ (ph - 1) % 4 = 1 ->
               [ w |-> {<<DDQ(dz, dy, qx),
                          Accumulate([n \in 1 .. K.D1D |-> LET dx == n - 1 IN
                              Load(mem, B(qx, dx), junk) * Load(mem, DDD(dx, dy, dz), junk)])>> :
                           dz \in inZ(K.D1D), dy \in inY(K.D1D), qx \in inX(K.Q1D)},
                 r |-> UNION {{B(qx, dx), DDD(dx, dy, dz)} :
                                 dx \in all, dz \in inZ(K.D1D), dy \in inY(K.D1D),
                                 qx \in inX(K.Q1D)} ]
          [] ph > 0 /\ (ph - 1) % 4 = 2 ->
               [ w |-> {<<DQQ(dz, qy, qx),
                          Accumulate([n \in 1 .. K.D1D |-> LET dy == n - 1 IN
                              Load(mem, DDQ(dz, dy, qx), junk) * Load(mem, B(qy, dy), junk)])>> :
                           dz \in inZ(K.D1D), qy \in inY(K.Q1D), qx \in inX(K.Q1D)},
                 r |-> UNION {{DDQ(dz, dy, qx), B(qy, dy)} :
                                 dy \in all, dz \in inZ(K.D1D), qy \in inY(K.Q1D),
                                 qx \in inX(K.Q1D)} ]
          [] OTHER ->
               [ w |-> {<<Y(qx, qy, qz),
                          Accumulate([n \in 1 .. K.D1D |-> LET dz == n - 1 IN
                              Load(mem, DQQ(dz, qy, qx), junk) * Load(mem, B(qz, dz), junk)])>> :
                           qz \in inZ(K.Q1D), qy \in inY(K.Q1D), qx \in inX(K.Q1D)},
                 r |-> UNION {{DQQ(dz, qy, qx), B(qz, dz)} :
                                 dz \in all, qz \in inZ(K.Q1D), qy \in inY(K.Q1D),
                                 qx \in inX(K.Q1D)} ]

\* memory after the stores w, and the accesses of thread t they add to the log
Store(mem, w) ==
    [loc \in DOMAIN mem \cup {s[1] : s \in w} |->
        IF \E s \in w : s[1] = loc THEN (CHOOSE s \in w : s[1] = loc)[2] ELSE mem[loc]]

Accesses(t, eff) ==
    {<<t, s[1], "w">> : s \in eff.w} \cup {<<t, loc, "r">> : loc \in eff.r}

\* the kernels explored.  The batched 2D instances Values starts have 128
\* threads or more per block; the template is run here as <1, 2, 2, 2> and
\* <1, 2, 1, 2>, and the generic kernels (MD1 = MQ1 = 8) on small spaces.
KernelSizes ==
    { [dim |-> 2, VDIM |-> 1, D1D |-> 2, Q1D |-> 2, NBZ |-> 2, MD1 |-> 2, MQ1 |-> 2, NE |-> 2],
      [dim |-> 2, VDIM |-> 1, D1D |-> 2, Q1D |-> 1, NBZ |-> 2, MD1 |-> 2, MQ1 |-> 1, NE |-> 3],
      [dim |-> 2, VDIM |-> 2, D1D |-> 3, Q1D |-> 2, NBZ |-> 1, MD1 |-> MD1, MQ1 |-> MQ1, NE |-> 2],
      [dim |-> 3, VDIM |-> 1, D1D |-> 2, Q1D |-> 2, NBZ |-> 1, MD1 |-> MD1, MQ1 |-> MQ1, NE |-> 1],
      [dim |-> 3, VDIM |-> 2, D1D |-> 2, Q1D |-> 1, NBZ |-> 1, MD1 |-> MD1, MQ1 |-> MQ1, NE |-> 2] }

\* basis tables and element vectors: entries that tell the indices apart
BasisTables(n) == { [i \in 1 .. n |-> i], [i \in 1 .. n |-> IF i % 2 = 1 THEN 1 ELSE 0 - 2] }

PowDim(n, d) == IF d = 2 THEN n * n ELSE n * n * n

InitKernel ==
    /\ \E K \in KernelSizes : \E b_ \in BasisTables(K.Q1D * K.D1D) :
          /\ launch = [ dim |-> K.dim, VDIM |-> K.VDIM, D1D |-> K.D1D, Q1D |-> K.Q1D,
                        NBZ |-> K.NBZ, MD1 |-> K.MD1, MQ1 |-> K.MQ1, NE |-> K.NE,
                        b_ |-> b_,
                        x_ |-> [i \in 1 .. PowDim(K.D1D, K.dim) * K.VDIM * K.NE |->
                                   ((3 * i) % 7) - 2] ]
          /\ \E old \in {0, 5} :
                kmem = [loc \in {<<"y", 0, i>> :
                                    i \in 0 .. (K.VDIM * PowDim(K.Q1D, K.dim) * K.NE) - 1} |-> old]
    /\ kpos = [t \in KernelThreads(launch) |-> 0]
    /\ kepoch = [blk \in {t.blk : t \in KernelThreads(launch)} |-> 0]
    /\ klog = {}
    /\ AsmUnused
    /\ tdof_arg = 0 /\ rank_ret = NoReturn /\ qi = <<>> /\ kernel = NoKernel
    /\ dim = 2 /\ nxyz = <<1, 1, 1>> /\ subdomain_rank = <<>> /\ tdof_offsets = <<>>
    /\ part = <<>> /\ pfes = <<>> /\ fes = <<>>
    /\ BridgeUnused /\ TransferUnused /\ FCTUnused

\* thread t runs the code up to its next MFEM_SYNC_THREAD
ThreadPhase(t) ==
    /\ kpos[t] = kepoch[t.blk]
    /\ kpos[t] < NumPhases(launch)
    /\ \E junk \in Junk :
         LET run(eff) ==
                 /\ kmem' = Store(kmem, eff.w)
                 /\ klog' = klog \cup Accesses(t, eff)
         IN  run(IF launch.dim = 2
                 THEN EvalByVDim2D(launch, t, kpos[t], kmem, junk)
                 ELSE EvalByVDim3D(launch, t, kpos[t], kmem, junk))
    /\ kpos' = [kpos EXCEPT ![t] = @ + 1]
    /\ UNCHANGED <<inputVars, bridgeVars, xferVars, fctVars, tdof_arg, rank_ret, qi, kernel, asmVars,
                   launch, kepoch>>

\* MFEM_SYNC_THREAD: every thread of block blk has arrived
SyncThread(blk) ==
    /\ \A t \in DOMAIN kpos : t.blk = blk => kpos[t] = kepoch[blk] + 1
    /\ kepoch' = [kepoch EXCEPT ![blk] = @ + 1]
    /\ klog' = {a \in klog : a[1].blk # blk}
    /\ UNCHANGED <<inputVars, bridgeVars, xferVars, fctVars, tdof_arg, rank_ret, qi, kernel, asmVars,
                   launch, kmem, kpos>>

NextKernel ==
    \/ \E t \in DOMAIN kpos : ThreadPhase(t)
    \/ \E blk \in DOMAIN kepoch : SyncThread(blk)

SpecKernel == InitKernel /\ [][NextKernel]_vars

----------------------------------------------------------------------------
(* ex9: the discrete upwinding matrix.  A finalized SparseMatrix is held as *)
(* its CSR arrays I, J and data, with offsets and indices counted from 0    *)

UpwindSize   == 3               \* rows of K
UpwindValues == {-2, -1, 1}     \* entries of K off the diagonal
UpwindDiagonals == {-1}         \* entries of K on the diagonal

\* the finalized matrix with pattern P (pairs <<row, col>>) and entries val
CSR(n, P, val) ==
    LET before(e) == {f \in P : f[1] < e[1] \/ (f[1] = e[1] /\ f[2] < e[2])}
        entry(k)  == CHOOSE e \in P : Cardinality(before(e)) = k
    IN  [ n    |-> n,
          I    |-> [r \in 1 .. n + 1 |-> Cardinality({f \in P : f[1] < r - 1})],
          J    |-> [k \in 1 .. Cardinality(P) |-> entry(k - 1)[2]],
          data |-> [k \in 1 .. Cardinality(P) |-> val[entry(k - 1)]] ]

\* the row that holds offset j
RowOf(A, j) == CHOOSE row \in 0 .. A.n - 1 : At(A.I, row) <= j /\ j < At(A.I, row + 1)

\* for (_j = I[col]; true; _j++): the offset of entry (col, row), or -1 where
\* the loop arrives at _end and calls mfem_error
RECURSIVE FindSymmetricEntry(_, _, _, _)
FindSymmetricEntry(A, _j, _end, row) ==
    IF _j = _end THEN -1
    ELSE IF At(A.J, _j) = row THEN _j
         ELSE FindSymmetricEntry(A, _j + 1, _end, row)

\* SparseMatrix_Build_smap(A)
SparseMatrix_Build_smap(A) ==
    LET smap == [n \in 1 .. At(A.I, A.n) |->
                    LET j   == n - 1
                        col == At(A.J, j)
                    IN  FindSymmetricEntry(A, At(A.I, col), At(A.I, col + 1), RowOf(A, j))]
    IN  [error |-> \E n \in DOMAIN smap : smap[n] = -1, smap |-> smap]

\* dij = fmax(fmax(0.0,-kij),-kji) with only the entry of the own row looked at
UpwindCoefficient_OwnRowOnly(kij, kji) == Max2(0, 0 - kij)

\* double dij = fmax(fmax(0.0,-kij),-kji);
UpwindCoefficient(kij, kji) == Max2(Max2(0, 0 - kij), 0 - kji)

\* the loops of ComputeDiscreteUpwindingMatrix from row i and offset k on,
\* Dp being the data of D and rowsum the sum of the row so far
RECURSIVE UpwindFrom(_, _, _, _, _, _)
UpwindFrom(A, smap, Dp, i, k, rowsum) ==
    IF i = A.n THEN Dp
    ELSE IF k = At(A.I, i + 1)
         THEN LET ii == FindSymmetricEntry(A, At(A.I, i), At(A.I, i + 1), i)
              IN  UpwindFrom(A, smap, [Dp EXCEPT ![ii + 1] = 0 - rowsum], i + 1, k, 0)
         ELSE LET j   == At(A.J, k)
                  kij == At(A.data, k)
                  kji == At(A.data, At(smap, k))
                  dij == UpwindCoefficient(kij, kji)
                  D1  == [Dp EXCEPT ![k + 1] = dij]
                  D2  == [D1 EXCEPT ![At(smap, k) + 1] = dij]
              IN  UpwindFrom(A, smap, D2, i, k + 1,
                             IF i # j THEN rowsum + At(D2, k) ELSE rowsum)

\* ComputeDiscreteUpwindingMatrix(K, D), Dp being the data D comes with
ComputeDiscreteUpwindingMatrix(A, Dp) ==
    LET map == SparseMatrix_Build_smap(A)
    IN  IF map.error THEN [error |-> TRUE, D |-> Dp]
        ELSE [error |-> FALSE, D |-> UpwindFrom(A, map.smap, Dp, 0, 0, 0)]

\* patterns that hold the diagonal, as every assembled DG form does, and
\* couplings between the neighbours of a periodic row of unknowns
UpwindPatterns ==
    LET N    == 0 .. UpwindSize - 1
        diag == {<<i, i>> : i \in N}
        near == {e \in N \X N : (e[1] - e[2]) % UpwindSize \in {1, UpwindSize - 1}}
    IN  {diag \cup off : off \in SUBSET near}

InitUpwinding ==
    /\ \E P \in UpwindPatterns : \E kii \in UpwindDiagonals :
       \E val \in [{e \in P : e[1] # e[2]} -> UpwindValues] :
          prob = [K |-> CSR(UpwindSize, P,
                            [e \in P |-> IF e[1] = e[2] THEN kii ELSE val[e]])]
    /\ fct = [KpD |-> prob.K.data]
    /\ evo = <<>>
    /\ asmpc = "start"
    /\ tdof_arg = 0 /\ rank_ret = NoReturn /\ qi = <<>> /\ kernel = NoKernel /\ KernUnused
    /\ dim = 2 /\ nxyz = <<1, 1, 1>> /\ subdomain_rank = <<>> /\ tdof_offsets = <<>>
    /\ part = <<>> /\ pfes = <<>> /\ fes = <<>>
    /\ BridgeUnused /\ TransferUnused /\ FCTUnused

\* KpD = Rho.SpMat(); ComputeDiscreteUpwindingMatrix(Rho.SpMat(), KpD);
\* KpD += Rho.SpMat();
DiscreteUpwinding ==
    /\ asmpc = "start"
    /\ LET ret == ComputeDiscreteUpwindingMatrix(prob.K, fct.KpD)
       IN  IF ret.error
           THEN /\ asmpc' = "mfem_error"
                /\ UNCHANGED <<fct, evo>>
           ELSE /\ evo' = [D |-> ret.D, smap |-> SparseMatrix_Build_smap(prob.K).smap]
                /\ fct' = [KpD |-> [k \in DOMAIN ret.D |-> ret.D[k] + prob.K.data[k]]]
                /\ asmpc' = "done"
    /\ UNCHANGED <<inputVars, bridgeVars, xferVars, fctVars,
                   tdof_arg, rank_ret, qi, kernel, kernVars, prob>>

NextUpwinding == DiscreteUpwinding

SpecUpwinding == InitUpwinding /\ [][NextUpwinding]_vars

----------------------------------------------------------------------------
(* ex9: the Rusanov branch of ComputeLowOrderSolution.  A DenseMatrix is    *)
(* its Height, its Width and its data, stored column by column              *)

\* tensor-product elements of order p: nd dofs, numDofs dofs on each of the
\* numBdrs boundaries
RECURSIVE Power(_, _)
Power(b, e) == IF e = 0 THEN 1 ELSE b * Power(b, e - 1)
ElementDofs(W)  == Power(W.p + 1, W.dim)
BoundaryDofs(W) == Power(W.p + 1, W.dim - 1)
Boundaries(W)   == 2 * W.dim

\* dummy.ExtractBdrDofs(dofs): dof number j of boundary i, the dofs of the
\* element counted row by row and the boundaries as FillNeighborDofs counts them
ExtractBdrDofs(W) ==
    LET p == W.p
        dof(j, i) ==
            IF W.dim = 1 THEN (IF i = 0 THEN 0 ELSE p)
            ELSE CASE i = 0 -> j
                   [] i = 1 -> ((p + 1) * j) + p
                   [] i = 2 -> ((p + 1) * p) + j
                   [] i = 3 -> (p + 1) * j
    IN  [ Height |-> BoundaryDofs(W),
          Width  |-> Boundaries(W),
          data   |-> [n \in 1 .. BoundaryDofs(W) * Boundaries(W) |->
                         dof((n - 1) % BoundaryDofs(W), (n - 1) \div BoundaryDofs(W))] ]

\* DenseMatrix::operator()(i, j) of a build without MFEM_DEBUG, and the test
\* a build with MFEM_DEBUG asserts before it
Elem(tab, i, j) == At(tab.data, i + (j * tab.Height))
InBounds(tab, i, j) == 0 <= i /\ i < tab.Height /\ 0 <= j /\ j < tab.Width

\* fct.dofs(i,j) of lines 1702 and 1708, i counting the boundaries and j the
\* dofs of a boundary
RusanovDof(tab, i, j) == Elem(tab, i, j)

\* uSum of boundary i of element k
RusanovSum(W, tab, X, k, i) ==
    SumSeq([n \in 1 .. tab.Height |-> At(X, (k * ElementDofs(W)) + RusanovDof(tab, i, n - 1))])

\* Z after the boundary contributions of every element
RusanovBoundary(W, tab, bdrDiff, X, Z) ==
    LET nd == ElementDofs(W)
        term(k, i, j, n) ==
            IF (k * nd) + RusanovDof(tab, i, j) = n
            THEN bdrDiff[k + 1][i + 1] * (RusanovSum(W, tab, X, k, i) - (tab.Height * At(X, n)))
            ELSE 0
    IN  [n \in 1 .. Len(Z) |->
            Z[n] + SumSeq([c \in 1 .. W.NE * tab.Width * tab.Height |->
                              term((c - 1) \div (tab.Width * tab.Height),
                                   ((c - 1) \div tab.Height) % tab.Width,
                                   (c - 1) % tab.Height,
                                   n - 1)])]

\* y of the Rusanov branch, as exact quotients
ComputeLowOrderSolution_Rusanov(W, members, X, Z) ==
    LET nd == ElementDofs(W)
        zB == RusanovBoundary(W, members.dofs, members.bdrDiff, X, Z)
        uSum(k) == SumSeq([j \in 1 .. nd |-> At(X, (k * nd) + (j - 1))])
    IN  [ z |-> zB,
          y |-> [n \in 1 .. Len(X) |->
                    LET k == (n - 1) \div nd
                    IN  [ num |-> zB[n] + (members.elDiff[k + 1] * (uSum(k) - (nd * X[n]))),
                          den |-> members.lumpedM[n] ]] ]

\* the spaces explored: segments and quadrilaterals whose transposed reads
\* stay inside the data of dofs
RusanovWorlds ==
    { [dim |-> 1, p |-> 1, NE |-> 2], [dim |-> 1, p |-> 2, NE |-> 2],
      [dim |-> 2, p |-> 1, NE |-> 2], [dim |-> 2, p |-> 2, NE |-> 1] }

InitRusanov ==
    /\ \E W \in RusanovWorlds : \E debug \in BOOLEAN :
       \E x_ \in [1 .. W.NE * ElementDofs(W) -> 0 .. 1] : \E z0 \in 0 .. 1 :
          prob = [W |-> W, MFEM_DEBUG |-> debug, x |-> x_,
                  z |-> [n \in 1 .. W.NE * ElementDofs(W) |-> z0]]
    /\ \E same \in BOOLEAN :
          fct = [ dofs    |-> ExtractBdrDofs(prob.W),
                  bdrDiff |-> [k \in 1 .. prob.W.NE |-> [i \in 1 .. Boundaries(prob.W) |->
                                  IF same THEN 1 ELSE i]],
                  elDiff  |-> [k \in 1 .. prob.W.NE |-> 1],
                  lumpedM |-> [n \in 1 .. Len(prob.x) |-> 2] ]
    /\ evo = <<>>
    /\ asmpc = "start"
    /\ tdof_arg = 0 /\ rank_ret = NoReturn /\ qi = <<>> /\ kernel = NoKernel /\ KernUnused
    /\ dim = 2 /\ nxyz = <<1, 1, 1>> /\ subdomain_rank = <<>> /\ tdof_offsets = <<>>
    /\ part = <<>> /\ pfes = <<>> /\ fes = <<>>
    /\ BridgeUnused /\ TransferUnused /\ FCTUnused

\* FE_Evolution::ComputeLowOrderSolution(x, y) with fct.monoType == Rusanov
LowOrderRusanov ==
    /\ asmpc = "start"
    /\ IF /\ prob.MFEM_DEBUG
          /\ \E i \in 0 .. fct.dofs.Width - 1 : \E j \in 0 .. fct.dofs.Height - 1 :
                ~InBounds(fct.dofs, i, j)
       THEN asmpc' = "abort" /\ UNCHANGED evo
       ELSE /\ evo' = ComputeLowOrderSolution_Rusanov(prob.W, fct, prob.x, prob.z)
            /\ asmpc' = "done"
    /\ UNCHANGED <<inputVars, bridgeVars, xferVars, fctVars,
                   tdof_arg, rank_ret, qi, kernel, kernVars, prob, fct>>

NextRusanov == LowOrderRusanov

SpecRusanov == InitRusanov /\ [][NextRusanov]_vars

----------------------------------------------------------------------------
(* ex9: preprocessFluxLumping and FillNeighborDofs on quadrilaterals        *)

MaxCells == 3       \* most elements along one axis of the mesh

\* a % b of C++: the quotient is truncated towards zero
CRem(a, b) ==
    LET abs(v) == IF v >= 0 THEN v ELSE 0 - v
    IN  IF a >= 0 THEN abs(a) % abs(b) ELSE 0 - (abs(a) % abs(b))

\* Elem1No or Elem2No of boundary i of element k, whichever is not k: the
\* element across the boundary, or -1 where the mesh ends.  Elements are
\* counted row by row, boundary 0 is the bottom, 1 the right, 2 the top and
\* 3 the left one
NeighborElem(W, k, i) ==
    LET ix == k % W.nx
        iy == k \div W.nx
        jx == ix + (IF i = 1 THEN 1 ELSE IF i = 3 THEN -1 ELSE 0)
        jy == iy + (IF i = 2 THEN 1 ELSE IF i = 0 THEN -1 ELSE 0)
        inside == 0 <= jx /\ jx < W.nx /\ 0 <= jy /\ jy < W.ny
        wraps  == (jx = ix \/ W.perx) /\ (jy = iy \/ W.pery)
    IN  IF inside THEN jx + (W.nx * jy)
        ELSE IF wraps THEN (jx % W.nx) + (W.nx * (jy % W.ny))
             ELSE -1

\* FillNeighborDofs for dim == 2: neighborDof(k*numDofs+j, i) of element k
FillNeighborDofs(W, k) ==
    LET p  == W.p
        nd == (p + 1) * (p + 1)
        local(j, i) == CASE i = 0 -> ((p + 1) * p) + j
                         [] i = 1 -> (p + 1) * j
                         [] i = 2 -> j
                         [] i = 3 -> ((p + 1) * j) + p
    IN  [e \in (0 .. p) \X (0 .. 3) |-> (NeighborElem(W, k, e[2]) * nd) + local(e[1], e[2])]

\* idx of lines 1026-1029
ShapeNeighborIndex(nd, neighborElem, neighborDof) ==
    IF neighborElem # 0 THEN CRem(neighborDof, neighborElem * nd) ELSE neighborDof

\* Cartesian meshes of quadrilaterals, periodic or not along each axis
LumpingWorlds ==
    { W \in [nx : 1 .. MaxCells, ny : 1 .. MaxCells, perx : BOOLEAN, pery : BOOLEAN, p : 1 .. 2] :
         /\ W.perx => W.nx >= 2
         /\ W.pery => W.ny >= 2 }

InitLumping ==
    /\ \E W \in LumpingWorlds : \E debug \in BOOLEAN :
          prob = [W |-> W, MFEM_DEBUG |-> debug]
    /\ fct = [neighborDof |-> <<>>]
    /\ evo = [k |-> 0, idx |-> <<>>]
    /\ asmpc = "start"
    /\ tdof_arg = 0 /\ rank_ret = NoReturn /\ qi = <<>> /\ kernel = NoKernel /\ KernUnused
    /\ dim = 2 /\ nxyz = <<1, 1, 1>> /\ subdomain_rank = <<>> /\ tdof_offsets = <<>>
    /\ part = <<>> /\ pfes = <<>> /\ fes = <<>>
    /\ BridgeUnused /\ TransferUnused /\ FCTUnused

\* preprocessFluxLumping(fes, coef, k, irF1) for the next element k of the
\* loop of lines 918-921; evo.idx holds the idx it read shapeNeighbor at, by
\* boundary i and boundary dof m
preprocessFluxLumping ==
    /\ asmpc = "start"
    /\ LET W   == prob.W
           k   == evo.k
           nd  == (W.p + 1) * (W.p + 1)
           nbr == FillNeighborDofs(W, k)
           idx == [e \in (0 .. 3) \X (0 .. W.p) |->
                      ShapeNeighborIndex(nd, NeighborElem(W, k, e[1]), nbr[<<e[2], e[1]>>])]
           outside == \E e \in DOMAIN idx : idx[e] < 0 \/ idx[e] >= nd
       IN  /\ fct' = [neighborDof |-> fct.neighborDof \o <<nbr>>]
           /\ \E stops \in IF outside THEN (IF prob.MFEM_DEBUG THEN {TRUE} ELSE BOOLEAN)
                                      ELSE {FALSE} :
                 IF stops
                 THEN /\ asmpc' = "abort"
                      /\ evo' = [evo EXCEPT !.idx = idx]
                 ELSE /\ asmpc' = IF k + 1 = W.nx * W.ny THEN "done" ELSE "start"
                      /\ evo' = [k |-> k + 1, idx |-> idx]
    /\ UNCHANGED <<inputVars, bridgeVars, xferVars, fctVars,
                   tdof_arg, rank_ret, qi, kernel, kernVars, prob>>

NextLumping == preprocessFluxLumping

SpecLumping == InitLumping /\ [][NextLumping]_vars

----------------------------------------------------------------------------
(* ex9: the divisions that form ratios, weights and blending coefficients.  *)
(* A denominator v + e*eps is held as its integer part v and the sign e of  *)
(* the eps added to it; on integer data a test against eps is one against 0 *)

Denominator(at, v, e) == [at |-> at, v |-> v, e |-> e]

MaxOf(S) == CHOOSE v \in S : \A w \in S : v >= w
MinOf(S) == CHOOSE v \in S : \A w \in S : v <= w

\* the entries of element k of a vector
ElementValues(W, vec, k) ==
    [j \in 1 .. ElementDofs(W) |-> At(vec, (k * ElementDofs(W)) + (j - 1))]

\* ComputeFCTSolution, lines 1945-1954: the sums the fluxes of element k are
\* divided by
ComputeFCTSolution_Ratios(k) ==
    LET s == ElementSums(k)
        f == [j \in 1 .. FCTSpace.nd |-> fClipped((k * FCTSpace.nd) + (j - 1))]
    IN  {Denominator("sumPos", s.sumPos, 0) :
            j \in {j \in 1 .. FCTSpace.nd : s.sumPos + s.sumNeg > 0 /\ f[j] > 0}}
        \cup
        {Denominator("sumNeg", s.sumNeg, 0) :
            j \in {j \in 1 .. FCTSpace.nd : s.sumPos + s.sumNeg < 0 /\ f[j] < 0}}

\* LumpFluxTerms(k, nd, x, y, alpha): the denominators of weightP and weightN
LumpFluxTerms(W, X, bdrIntLumped, k) ==
    LET nd  == ElementDofs(W)
        tab == ExtractBdrDofs(W)
        nbr == FillNeighborDofs(W, k)
        jump(i, j) ==
            LET dofInd    == (k * nd) + Elem(tab, i, j)
                idx       == nbr[<<i, j>>]
                xNeighbor == IF idx < 0 THEN 0 ELSE At(X, idx)
            IN  xNeighbor - At(X, dofInd)
        sumLumpedFluxP(j) ==
            SumSeq([n \in 1 .. tab.Height |-> Max2(0, jump(n - 1, j)) * bdrIntLumped])
        sumLumpedFluxN(j) ==
            SumSeq([n \in 1 .. tab.Height |-> Min2(0, jump(n - 1, j)) * bdrIntLumped])
    IN  UNION { { Denominator("weightP", sumLumpedFluxP(j), 1),
                  Denominator("weightN", sumLumpedFluxN(j), -1) } : j \in 0 .. tab.Width - 1 }

\* fct.subcell2CellDof(m, j) for dim == 2, as FillSubcell2CellDof sets it
subcell2CellDof(p, m, j) ==
    CASE j = 0 -> m + (m \div p)
      [] j = 1 -> m + (m \div p) + 1
      [] j = 2 -> m + (m \div p) + p + 1
      [] j = 3 -> m + (m \div p) + p + 2

\* ComputeLowOrderSolution, the branch of ResDist .. ResDist_LimMass, for
\* element k: the denominators of alpha, of the weights and of the subcell
\* terms
ComputeLowOrderSolution_ResDist(W, in, k) ==
    LET nd   == ElementDofs(W)
        xe   == ElementValues(W, in.x, k)
        ze   == ElementValues(W, in.z, k)
        xMax == MaxOf({xe[j] : j \in 1 .. nd})
        xMin == MinOf({xe[j] : j \in 1 .. nd})
        xSum == SumSeq(xe)
        rhoP == SumSeq([j \in 1 .. nd |-> Max2(0, ze[j])])
        rhoN == SumSeq([j \in 1 .. nd |-> Min2(0, ze[j])])
        numSubcells    == Power(W.p, W.dim)
        numDofsSubcell == Power(2, W.dim)
        xSub(m)    == [i \in 1 .. numDofsSubcell |-> xe[subcell2CellDof(W.p, m, i - 1) + 1]]
        fluct(m) == SumSeq([i \in 1 .. numDofsSubcell |-> in.fluctSub[i] * xSub(m)[i]])
        sumRhoSubcellP == SumSeq([n \in 1 .. numSubcells |-> Max2(0, fluct(n - 1))])
        sumRhoSubcellN == SumSeq([n \in 1 .. numSubcells |-> Min2(0, fluct(n - 1))])
        blend == IF in.monoType \in {7, 8}
                 THEN {Denominator("alpha", Max2(xMax - xe[j], xe[j] - xMin), 1) : j \in 1 .. nd}
                 ELSE {}
        lump  == IF W.dim > 1 THEN LumpFluxTerms(W, in.x, in.bdrIntLumped, k) ELSE {}
        whole == { Denominator("sumWeightsP", (nd * xMax) - xSum, 1),
                   Denominator("sumWeightsN", (nd * xMin) - xSum, -1) }
        sub   == IF in.isSubCell
                 THEN UNION { { Denominator("sumWeightsSubcellP",
                                   (numDofsSubcell * MaxOf({xSub(m)[i] : i \in 1 .. numDofsSubcell}))
                                       - SumSeq(xSub(m)), 1),
                                Denominator("sumWeightsSubcellN",
                                   (numDofsSubcell * MinOf({xSub(m)[i] : i \in 1 .. numDofsSubcell}))
                                       - SumSeq(xSub(m)), -1) } : m \in 0 .. numSubcells - 1 }
                      \cup { Denominator("auxP", rhoP, 1), Denominator("auxN", rhoN, -1),
                             Denominator("sumRhoSubcellP", sumRhoSubcellP, 1),
                             Denominator("sumRhoSubcellN", sumRhoSubcellN, -1) }
                 ELSE {}
    IN  blend \cup lump \cup whole \cup sub

\* ComputeLimitedSolution, element k: the denominators of alpha
ComputeLimitedSolution(W, Z, step, k) ==
    LET ze   == ElementValues(W, Z, k)
        zMax == MaxOf({ze[j] : j \in 1 .. Len(ze)})
        zMin == MinOf({ze[j] : j \in 1 .. Len(ze)})
    IN  {Denominator("dt", step, 0)}
        \cup {Denominator("alpha", Max2(zMax - ze[j], ze[j] - zMin), 1) : j \in 1 .. Len(ze)}

\* the mesh the ratios are explored on: two quadrilaterals of order 1 in a
\* row, periodic along the row
RatioWorld ==
    [dim |-> 2, p |-> 1, NE |-> 2, nx |-> 2, ny |-> 1, perx |-> TRUE, pery |-> FALSE]

\* vectors standing for a fluctuation or a time derivative
RatioVectors ==
    LET n == RatioWorld.NE * ElementDofs(RatioWorld)
    IN  { [i \in 1 .. n |-> 0], [i \in 1 .. n |-> 1], [i \in 1 .. n |-> -1],
          [i \in 1 .. n |-> IF i % 2 = 0 THEN 1 ELSE -1] }

\* the time steps the option -dt hands to SetDt
RatioSteps == 0 .. 2

RatioNoFCT ==
    /\ u = <<>> /\ yH = <<>> /\ yL = <<>> /\ lumpedM = <<>> /\ bnds = <<>>

InitRatios ==
    /\ \/ /\ \E in \in [x : [1 .. 4 -> 0 .. 1], yH : [1 .. 4 -> {-1, 1}], yL : [1 .. 4 -> {-1, 0}]] :
                u = in.x /\ yH = in.yH /\ yL = in.yL
          /\ lumpedM = <<1, 2, 2, 1>>
          /\ bnds = ComputeFromSparsity(FCTSpace, u)
          /\ prob = [routine |-> "ComputeFCTSolution"]
       \/ /\ RatioNoFCT
          /\ \E x_ \in [1 .. 8 -> 0 .. 1] : \E w \in 0 .. 1 :
                prob = [routine |-> "LumpFluxTerms", x |-> x_, bdrIntLumped |-> w]
       \/ /\ RatioNoFCT
          /\ \E x_ \in [1 .. 8 -> 0 .. 1] : \E z_ \in RatioVectors : \E w \in 0 .. 1 :
             \E type \in {5, 7} : \E sub \in BOOLEAN :
             \E fl \in {<<0, 0, 0, 0>>, <<1, -1, 1, -1>>} :
                prob = [routine |-> "ComputeLowOrderSolution", x |-> x_, z |-> z_,
                        bdrIntLumped |-> w, monoType |-> type, isSubCell |-> sub,
                        fluctSub |-> fl]
       \/ /\ RatioNoFCT
          /\ \E z_ \in [1 .. 8 -> 0 .. 1] :
                prob = [routine |-> "ComputeLimitedSolution", z |-> z_]
    /\ dt \in RatioSteps
    /\ ydot = <<>> /\ fctpc = "unused" /\ MultUnused
    /\ fct = <<>>
    /\ evo = [denominators |-> {}]
    /\ asmpc = "start"
    /\ tdof_arg = 0 /\ rank_ret = NoReturn /\ qi = <<>> /\ kernel = NoKernel /\ KernUnused
    /\ dim = 2 /\ nxyz = <<1, 1, 1>> /\ subdomain_rank = <<>> /\ tdof_offsets = <<>>
    /\ part = <<>> /\ pfes = <<>> /\ fes = <<>>
    /\ BridgeUnused /\ TransferUnused

\* the routine has run over every element
Divided(denominators) ==
    /\ asmpc = "start"
    /\ evo' = [denominators |-> denominators]
    /\ asmpc' = "done"
    /\ UNCHANGED <<inputVars, bridgeVars, xferVars, fctVars,
                   tdof_arg, rank_ret, qi, kernel, kernVars, prob, fct>>

\* FE_Evolution::ComputeFCTSolution
FCTRatios ==
    /\ prob.routine = "ComputeFCTSolution"
    /\ Divided(UNION {ComputeFCTSolution_Ratios(k) : k \in 0 .. FCTSpace.NE - 1})

\* FE_Evolution::ComputeLowOrderSolution with DiscUpw and fct.isSubCell
LowOrderDiscUpw ==
    /\ prob.routine = "LumpFluxTerms"
    /\ Divided(UNION {LumpFluxTerms(RatioWorld, prob.x, prob.bdrIntLumped, k) :
                         k \in 0 .. RatioWorld.NE - 1})

\* FE_Evolution::ComputeLowOrderSolution with ResDist .. ResDist_LimMass
LowOrderResDist ==
    /\ prob.routine = "ComputeLowOrderSolution"
    /\ Divided(UNION {ComputeLowOrderSolution_ResDist(RatioWorld, prob, k) :
                         k \in 0 .. RatioWorld.NE - 1})

\* FE_Evolution::ComputeLimitedSolution
LimitedSolution ==
    /\ prob.routine = "ComputeLimitedSolution"
    /\ Divided(UNION {ComputeLimitedSolution(RatioWorld, prob.z, dt, k) :
                         k \in 0 .. RatioWorld.NE - 1})

NextRatios ==
    \/ FCTRatios
    \/ LowOrderDiscUpw
    \/ LowOrderResDist
    \/ LimitedSolution

SpecRatios == InitRatios /\ [][NextRatios]_vars

----------------------------------------------------------------------------
(* Properties of the subdomain-global bridge *)

\* the rank whose slice of the global vector holds true dof g
SliceOwner(g) ==
    CHOOSE r \in Ranks : pfes[r].MyTDofOffset <= g /\ g < pfes[r].MyTDofOffset + pfes[r].TrueVSize

\* the entry of true dof g in the distributed vector v
GlobalEntry(v, g) == v[SliceOwner(g)][g - pfes[SliceOwner(g)].MyTDofOffset + 1]

SetupDone(p) == pc[p].ph \in {"R", "G", "S"}
PastStep4(p) == pc[p].ph \in {"B", "R", "G", "S"}

\* the map of subdomain ip as its host rank holds it
HostMap(ip) == SubdomainGTrueDofs[subdomain_rank[ip]][ip]

\* C1: when GlobalToSubdomains has returned on the host p of a subdomain ip,
\* x[ip] has one entry per entry of SubdomainGTrueDofs[ip], entry i is the value
\* the owner of g = SubdomainGTrueDofs[ip][i] holds for g in its slice of y, and
\* from every rank's receive segment exactly its length has been consumed.
C1_GlobalToSubdomainsValues ==
    \A p \in Ranks :
        pc[p] = At_("G", "done") =>
            /\ \A ip \in Subdomains :
                  subdomain_rank[ip] = p =>
                     /\ Len(x[p][ip]) = Len(SubdomainGTrueDofs[p][ip])
                     /\ \A i \in 1 .. Len(x[p][ip]) :
                           x[p][ip][i] = GlobalEntry(y, SubdomainGTrueDofs[p][ip][i])
            /\ \A r \in Ranks :
                  recv_count[p][r] =
                     SumSeq([k \in 1 .. part.nrsubdomains |->
                        IF subdomain_rank[k - 1] # p THEN 0
                        ELSE Cardinality({i \in 1 .. Len(SubdomainGTrueDofs[p][k - 1]) :
                                 SliceOwner(SubdomainGTrueDofs[p][k - 1][i]) = r})])

\* a returned GlobalToSubdomains on a rank hosting two subdomains, one of which
\* has true dofs in the slices of two different ranks
C1_Witness ==
    \E p \in Ranks, ip, iq \in Subdomains :
        /\ pc[p] = At_("G", "done")
        /\ ip # iq /\ subdomain_rank[ip] = p /\ subdomain_rank[iq] = p
        /\ \E i, j \in 1 .. Len(x[p][iq]) :
              /\ SliceOwner(SubdomainGTrueDofs[p][iq][i]) = p
              /\ SliceOwner(SubdomainGTrueDofs[p][iq][j]) # p

\* the sum of x[ip][i] over every subdomain ip and index i mapped to true dof g
Contributions(g) ==
    SumSeq([k \in 1 .. part.nrsubdomains |->
        SumSeq([i \in 1 .. Len(HostMap(k - 1)) |->
            IF HostMap(k - 1)[i] = g THEN x[subdomain_rank[k - 1]][k - 1][i] ELSE 0])])

\* C2: when SubdomainsToGlobal has returned on rank p, every entry of its slice
\* of y is its value at the entry of the call plus the sum of the subdomain
\* entries mapped to that true dof, whichever ranks host the subdomains.
C2_SubdomainsToGlobalAccumulates ==
    \A p \in Ranks :
        pc[p] = At_("S", "done") =>
            \A k \in 1 .. Len(y[p]) :
                y[p][k] = yPre[p][k] + Contributions(pfes[p].MyTDofOffset + k - 1)

\* a returned SubdomainsToGlobal where one true dof got contributions from two
\* subdomains hosted by different ranks
C2_Witness ==
    \E p \in Ranks, ip, iq \in Subdomains :
        /\ pc[p] = At_("S", "done")
        /\ subdomain_rank[ip] # subdomain_rank[iq]
        /\ \E i \in 1 .. Len(HostMap(ip)), j \in 1 .. Len(HostMap(iq)) :
              /\ HostMap(ip)[i] = HostMap(iq)[j]
              /\ SliceOwner(HostMap(ip)[i]) = p
              /\ x[subdomain_rank[ip]][ip][i] # 0 /\ x[subdomain_rank[iq]][iq][j] # 0

\* the rank owning global element e, and the true dof the global space gives
\* to position i of that element
ElementOwner(e) ==
    CHOOSE q \in Ranks :
        part.myelem_offset[q] <= e /\ e < part.myelem_offset[q] + Len(pfes[q].ElementDofs)

GlobalElementTDof(e, i) ==
    LET q == ElementOwner(e)
    IN  pfes[q].GlobalTDofNumber[
            DecodeDof(pfes[q].ElementDofs[e - part.myelem_offset[q] + 1][i]) + 1]

\* C3: once the host p of subdomain ip is past step 4 of the setup,
\* SubdomainGTrueDofs[ip] has one entry per local true dof, every entry is a
\* true dof of the global space, and for every local element iel and position
\* i the entry at the decoded local dof is the true dof of position i of the
\* global element element_map[ip][iel].
C3_SubdomainGTrueDofsAligned ==
    \A p \in Ranks, ip \in Subdomains :
        (PastStep4(p) /\ subdomain_rank[ip] = p) =>
            /\ Len(SubdomainGTrueDofs[p][ip]) = fes[ip].TrueVSize
            /\ \A d \in 1 .. fes[ip].TrueVSize :
                  \E r \in Ranks :
                     /\ pfes[r].MyTDofOffset <= SubdomainGTrueDofs[p][ip][d]
                     /\ SubdomainGTrueDofs[p][ip][d] < pfes[r].MyTDofOffset + pfes[r].TrueVSize
            /\ \A iel \in 1 .. Len(part.element_map[ip]) :
                  \A i \in 1 .. Len(fes[ip].ElementDofs[iel]) :
                     SubdomainGTrueDofs[p][ip][DecodeDof(fes[ip].ElementDofs[iel][i]) + 1]
                        = GlobalElementTDof(part.element_map[ip][iel], i)

\* a host past step 4 of a subdomain whose elements are spread over two ranks
\* and whose element dofs carry orientation signs
C3_Witness ==
    \E p, q \in Ranks, ip \in Subdomains :
        /\ PastStep4(p) /\ subdomain_rank[ip] = p /\ q # p
        /\ part.local_element_map[p][ip] # <<>>
        /\ part.local_element_map[q][ip] # <<>>
        /\ \E iel \in 1 .. Len(fes[ip].ElementDofs) :
              \E i \in 1 .. Len(fes[ip].ElementDofs[iel]) : fes[ip].ElementDofs[iel][i] < 0

\* C4: a rank gets past step 4 of the setup only if, for every subdomain it
\* hosts, the local true-dof count equals the count of reassembled global ids
\* (on a mismatch the setup aborts).
C4_SetupAbortsOnCountMismatch ==
    \A p \in Ranks, ip \in Subdomains :
        (PastStep4(p) /\ subdomain_rank[ip] = p) =>
            fes[ip].TrueVSize = Len(global_tdofs[p][ip])

----------------------------------------------------------------------------
(* Flux-corrected transport *)

\* den * (x + dt*y) at dof i (1-based), for the quotient y = ydot[i]
UpdatedTimesDen(i) == (u[i] * ydot[i].den) + (dt * ydot[i].num)
LowOrderUpdate(i) == u[i] + (dt * yL[i])
LowOrderAdmissible(i) == bnds.x_min[i] <= LowOrderUpdate(i) /\ LowOrderUpdate(i) <= bnds.x_max[i]
UpdateAdmissible(i) ==
    /\ bnds.x_min[i] * ydot[i].den <= UpdatedTimesDen(i)
    /\ UpdatedTimesDen(i) <= bnds.x_max[i] * ydot[i].den

----------------------------------------------------------------------------
(* The neighbour exchange, stated on the logical grid *)

\* direction d as a vector (0 on the third axis in 2D), grid coordinates of
\* subdomain s, and whether s has a neighbour in direction d
DirVec(d) == << (d % 3) - 1, ((d \div 3) % 3) - 1, IF dim = 3 THEN (d \div 9) - 1 ELSE 0 >>
Coord(s) == << s % nxyz[1], (s \div nxyz[1]) % nxyz[2], s \div (nxyz[1] * nxyz[2]) >>
ValidSlot(s, d) ==
    /\ DirVec(d) # <<0, 0, 0>>
    /\ \A a \in 1 .. 3 : 0 <= Coord(s)[a] + DirVec(d)[a] /\ Coord(s)[a] + DirVec(d)[a] < nxyz[a]
Neighbour(s, d) ==
    (Coord(s)[1] + DirVec(d)[1]) + (nxyz[1] * (Coord(s)[2] + DirVec(d)[2]))
        + (nxyz[1] * nxyz[2] * (Coord(s)[3] + DirVec(d)[3]))
Opposite(d) == (nrneighbors - 1) - d
Directions == 0 .. nrneighbors - 1
Listed == {SubdomainIds[is] : is \in 1 .. Len(SubdomainIds)}
SlotTag(s, d) == (s * nrneighbors) + d
HasPosted(p) == tpc[p] \in {"posted", "sent", "received"}
OvlpReady(l) == tpc[subdomain_rank[l]] \notin {"unused", "setup"}
SendsFor(p, s, d) == {n \in 1 .. Len(send_requests[p]) : send_requests[p][n].tag = SlotTag(s, d)}
RecvsFor(p, s, d) == {n \in 1 .. Len(recv_requests[p]) : recv_requests[p][n].tag = SlotTag(s, d)}

\* C6: after TransferToNeighbors the owner of t = s + d holds OvlpSol[t][-d] of
\* t's true-dof count, carrying the listed source vector's overlap entries at
\* the positions OvlpTDofs[t][-d] and 0 everywhere else
C6_OvlpSolHoldsSourceValues ==
    \A is \in 1 .. Len(SubdomainIds) : \A d \in Directions :
        LET s == SubdomainIds[is]
            t == Neighbour(s, d)
            src == xs[subdomain_rank[s]][is].data
            sol == OvlpSol[t][Opposite(d)]
            to == OvlpTDofs[t][Opposite(d)]
        IN  (ValidSlot(s, d) /\ tpc[subdomain_rank[t]] = "done") =>
                /\ sol.live
                /\ Len(sol.data) = fes[t].TrueVSize
                /\ Len(to) = Len(OvlpTDofs[s][d])
                /\ \A n \in 1 .. Len(to) : sol.data[to[n] + 1] = src[OvlpTDofs[s][d][n] + 1]
                /\ \A i \in 1 .. Len(sol.data) :
                      (\A n \in 1 .. Len(to) : to[n] + 1 # i) => sol.data[i] = 0

\* C7: for grid-adjacent s and t = s + d the list s sends for d and the list
\* t receives into for -d have the same size, so every posted send and its
\* receive carry the same count and no receive ends in a truncation error
C7_SendAndReceiveCountsAgree ==
    /\ \A s \in Subdomains : \A d \in Directions :
          (ValidSlot(s, d) /\ OvlpReady(s) /\ OvlpReady(Neighbour(s, d))) =>
              Len(OvlpTDofs[s][d]) = Len(OvlpTDofs[Neighbour(s, d)][Opposite(d)])
    /\ \A p \in Ranks, q \in Ranks :
          (HasPosted(p) /\ HasPosted(q)) =>
              \A n \in 1 .. Len(send_requests[p]) : \A r \in 1 .. Len(recv_requests[q]) :
                  ( /\ send_requests[p][n].rank = q
                    /\ recv_requests[q][r].rank = p
                    /\ send_requests[p][n].tag = recv_requests[q][r].tag )
                  => send_requests[p][n].count = recv_requests[q][r].count
    /\ \A p \in Ranks : tpc[p] # "mpi_error"

C7_Witness ==
    \E s \in Subdomains : \E d \in Directions :
        /\ ValidSlot(s, d)
        /\ subdomain_rank[s] # subdomain_rank[Neighbour(s, d)]
        /\ HasPosted(subdomain_rank[s]) /\ tpc[subdomain_rank[Neighbour(s, d)]] = "received"
        /\ Len(OvlpTDofs[s][d]) > 0
        /\ Len(OvlpTDofs[s][d]) < fes[s].TrueVSize
        /\ SendsFor(subdomain_rank[s], s, d) # {}
        /\ RecvsFor(subdomain_rank[Neighbour(s, d)], s, d) # {}

\* C8: the values a rank sends for the subdomain at position is of the id
\* list are the entries of the vector at position is of the vector list
C8_SendReadsVectorAtListPosition ==
    \A p \in Ranks : \A is \in 1 .. Len(SubdomainIds) : \A d \in Directions :
        LET s == SubdomainIds[is]
        IN  (HasPosted(p) /\ subdomain_rank[s] = p /\ ValidSlot(s, d)) =>
                \A n \in SendsFor(p, s, d) :
                    send_buffer[p][n] =
                        [k \in 1 .. Len(OvlpTDofs[s][d]) |->
                            xs[p][is].data[OvlpTDofs[s][d][k] + 1]]

\* C9: a rank that has finished its posting pass holds a send for (listed s,
\* d) exactly when it owns s, d is not the zero direction and s + d is in the
\* grid, and a receive for it exactly when it owns such an s + d; nothing
\* else is posted
C9_PostedExactlyForNeighboursInGrid ==
    \A p \in Ranks : HasPosted(p) =>
        /\ \A s \in Listed : \A d \in Directions :
              /\ (SendsFor(p, s, d) # {}) <=> (ValidSlot(s, d) /\ subdomain_rank[s] = p)
              /\ (RecvsFor(p, s, d) # {}) <=>
                     (ValidSlot(s, d) /\ subdomain_rank[Neighbour(s, d)] = p)
        /\ \A n \in 1 .. Len(send_requests[p]) :
              \E s \in Listed : \E d \in Directions : n \in SendsFor(p, s, d)
        /\ \A n \in 1 .. Len(recv_requests[p]) :
              \E s \in Listed : \E d \in Directions : n \in RecvsFor(p, s, d)

C9_Witness ==
    /\ dim = 3
    /\ \E p \in Ranks : \E s \in Listed :
          /\ HasPosted(p) /\ subdomain_rank[s] = p
          /\ \E d \in Directions : ValidSlot(s, d) /\ DirVec(d)[3] # 0 /\ SendsFor(p, s, d) # {}
          /\ \E d \in Directions : ~ValidSlot(s, d) /\ DirVec(d)[3] # 0 /\ SendsFor(p, s, d) = {}

\* C10: for every slot (s, d) with neighbour t a rank that has finished its
\* posting pass holds one send, addressed to the owner of t, if it owns s and
\* none otherwise, and one receive, from the owner of s, if it owns t and none
\* otherwise
C10_OneSendByOwnerOneReceiveByOwner ==
    \A p \in Ranks : \A s \in Listed : \A d \in Directions :
        (HasPosted(p) /\ ValidSlot(s, d)) =>
            LET t == Neighbour(s, d)
            IN  /\ Cardinality(SendsFor(p, s, d)) = IF subdomain_rank[s] = p THEN 1 ELSE 0
                /\ \A n \in SendsFor(p, s, d) : send_requests[p][n].rank = subdomain_rank[t]
                /\ Cardinality(RecvsFor(p, s, d)) = IF subdomain_rank[t] = p THEN 1 ELSE 0
                /\ \A n \in RecvsFor(p, s, d) : recv_requests[p][n].rank = subdomain_rank[s]

C10_Witness ==
    \E p \in Ranks, q \in Ranks : \E s \in Listed, s2 \in Listed : \E d \in Directions, e \in Directions :
        /\ p # q /\ HasPosted(p) /\ HasPosted(q)
        /\ ValidSlot(s, d) /\ subdomain_rank[s] = p /\ subdomain_rank[Neighbour(s, d)] = p
        /\ SendsFor(p, s, d) # {} /\ RecvsFor(p, s, d) # {}
        /\ ValidSlot(s2, e) /\ subdomain_rank[s2] = p /\ subdomain_rank[Neighbour(s2, e)] = q
        /\ SendsFor(q, s2, e) = {} /\ RecvsFor(q, s2, e) # {}

----------------------------------------------------------------------------
(* Message matching, buffers and termination of the exchange *)

\* the messages of the network a receive request of rank q can be matched with
Matching(q, req) ==
    {m \in 1 .. Len(net) : /\ net[m].dest = q
                           /\ net[m].src = req.rank
                           /\ net[m].tag = req.tag}

\* C11: within one call, two distinct messages in flight between the same
\* ordered pair of ranks carry different tags, and the message a posted
\* receive is matched with (the earliest of its source and tag) is the one
\* the same call's send of the receive's own (source subdomain, direction)
\* slot has put there.
C11_TagsDisambiguateMessages ==
    /\ \A m1, m2 \in 1 .. Len(net) :
          (/\ m1 # m2
           /\ net[m1].src = net[m2].src
           /\ net[m1].dest = net[m2].dest
           /\ net[m1].call = net[m2].call) => net[m1].tag # net[m2].tag
    /\ LET own(sends, recvs) ==
               \A q \in Ranks : tpc[q] \in {"posted", "sent"} =>
                  \A n \in 1 .. Len(recv_requests[q]) :
                     LET hits == Matching(q, recv_requests[q][n])
                     IN  hits # {} =>
                            LET m == CHOOSE h \in hits : \A g \in hits : h <= g
                                s == sends[net[m].src][net[m].seq]
                            IN  /\ net[m].call = tcalls[q]
                                /\ s.i0 = recvs[q][n].i0
                                /\ s.d = recvs[q][n].d
       IN  own([p \in Ranks |-> SendSlots(p, SubdomainIds)],
               [p \in Ranks |-> RecvSlots(p, SubdomainIds)])

\* two messages of one call are in flight from one rank to another rank that
\* has posted its receives
C11_Witness ==
    \E m1, m2 \in 1 .. Len(net) :
       /\ m1 # m2
       /\ net[m1].src = net[m2].src
       /\ net[m1].dest = net[m2].dest
       /\ net[m1].src # net[m1].dest
       /\ net[m1].call = net[m2].call
       /\ tpc[net[m1].dest] = "posted"
       /\ Matching(net[m1].dest, recv_requests[net[m1].dest][1]) # {}

\* C12: a rank frees a send or receive buffer, and reads a receive buffer
\* into OvlpSol, only in the step that follows the return of both waits;
\* while a wait is pending every buffer of the call is allocated, and when
\* the call has returned every send and receive buffer has been freed.
C12_BuffersOutliveTheWaits ==
    /\ [](\A p \in Ranks :
            /\ tpc[p] \in {"posted", "sent"} =>
                  /\ Len(send_buffer[p]) = Len(send_requests[p])
                  /\ Len(recv_buffer[p]) = Len(recv_requests[p])
            /\ tpc[p] = "done" => send_buffer[p] = <<>> /\ recv_buffer[p] = <<>>)
    /\ [][\A p \in Ranks :
            (\/ Len(send_buffer'[p]) < Len(send_buffer[p])
             \/ Len(recv_buffer'[p]) < Len(recv_buffer[p])
             \/ \E l \in Subdomains :
                   /\ subdomain_rank[l] = p
                   /\ tpc[p] # "setup"
                   /\ OvlpSol'[l] # OvlpSol[l])
            => tpc[p] = "received" /\ tpc'[p] = "done"]_vars

\* a rank with sends and receives has returned, all its buffers freed, while
\* another rank waits on its receives with its buffers allocated
C12_Witness ==
    \E p, q \in Ranks :
       /\ tpc[p] = "done"
       /\ SendSlots(p, SubdomainIds) # <<>>
       /\ RecvSlots(p, SubdomainIds) # <<>>
       /\ send_buffer[p] = <<>> /\ recv_buffer[p] = <<>>
       /\ tpc[q] = "sent"
       /\ send_buffer[q] # <<>> /\ recv_buffer[q] # <<>>

\* C13: when every rank calls TransferToNeighbors with the same list, a rank
\* that has posted its sends and receives gets through both waits and
\* returns, and every rank that has built its maps gets to return from a call.
C13_EveryCallReturns ==
    \A p \in Ranks : /\ (tpc[p] = "posted") ~> (tpc[p] = "done")
                     /\ (tpc[p] = "ready") ~> (tpc[p] = "done")

----------------------------------------------------------------------------
(* get_rank *)

\* C14: for a sorted offset table T and a dof index d, get_rank(d, T) is a
\* rank of 0 .. size(T)-1, the largest p with T[p] <= d, and it is 0 when T
\* has a single entry.
C14_GetRankIsLargestOffsetNotAbove ==
    rank_ret.returned =>
        LET T == tdof_offsets
            r == rank_ret.value
        IN  /\ r \in 0 .. Len(T) - 1
            /\ At(T, r) <= tdof_arg
            /\ \A p \in r + 1 .. Len(T) - 1 : At(T, p) > tdof_arg
            /\ Len(T) = 1 => r = 0

\* a call on a table of three ranks, the first of them without dofs, that
\* returned the middle rank
C14_Witness ==
    /\ rank_ret.returned
    /\ Len(tdof_offsets) = 3
    /\ tdof_offsets[1] = tdof_offsets[2]
    /\ tdof_offsets[3] > tdof_arg
    /\ rank_ret.value = 1

----------------------------------------------------------------------------
(* SubdomainLTrueDofs *)

\* C15: after Setup, on every rank p and for every subdomain ip,
\* SubdomainLTrueDofs[ip] is the subsequence of the host's
\* SubdomainGTrueDofs[ip] made of the global true dofs that get_rank gives to
\* p, in the same order; it holds no dof of another rank and is empty on a
\* rank that owns none of them.
C15_SubdomainLTrueDofsAreOwnedSubsequence ==
    \A p \in Ranks : SetupDone(p) =>
        \A ip \in Subdomains :
            /\ SubdomainLTrueDofs[p][ip] =
                   SelectSeq(HostMap(ip), LAMBDA g : get_rank(g, tdof_offsets) = p)
            /\ \A i \in 1 .. Len(SubdomainLTrueDofs[p][ip]) :
                   get_rank(SubdomainLTrueDofs[p][ip][i], tdof_offsets) = p

\* Setup is over on a rank that keeps some but not all dofs of a subdomain
\* hosted elsewhere, and on a rank that keeps none of a subdomain's dofs
C15_Witness ==
    /\ \E p \in Ranks, ip \in Subdomains :
          /\ SetupDone(p)
          /\ subdomain_rank[ip] # p
          /\ 0 < Len(SubdomainLTrueDofs[p][ip])
          /\ Len(SubdomainLTrueDofs[p][ip]) < Len(HostMap(ip))
    /\ \E q \in Ranks, iq \in Subdomains :
          /\ SetupDone(q)
          /\ SubdomainLTrueDofs[q][iq] = <<>>
          /\ HostMap(iq) # <<>>

----------------------------------------------------------------------------
(* FE_Evolution::Mult *)

\* C16: Mult runs, for monoType 0, the high-order routine only; for 1, 3, 5
\* the low-order routine only; for 2, 4, 6 the high-order and the low-order
\* routine into yH and yL and then ComputeFCTSolution; for 7 the low-order
\* routine only; for 8 the low-order routine and then ComputeLimitedSolution;
\* and in each case that one path, and nothing else, writes y.
C16_MultPathFollowsMonoType ==
    fctpc = "mult" =>
        LET runs == [i \in 1 .. Len(ywrites) |-> ywrites[i].run]
            intoY == {i \in 1 .. Len(ywrites) : ywrites[i].out = "y"}
        IN  /\ monoType \in 0 .. 8
            /\ monoType = 0 => runs = <<"ComputeHighOrderSolution">> /\ ydot = Quot(yH)
            /\ monoType \in {1, 3, 5, 7} =>
                  runs = <<"ComputeLowOrderSolution">> /\ ydot = Quot(yL)
            /\ monoType \in {2, 4, 6} =>
                  /\ ywrites = << [run |-> "ComputeHighOrderSolution", out |-> "yH"],
                                  [run |-> "ComputeLowOrderSolution", out |-> "yL"],
                                  [run |-> "ComputeFCTSolution", out |-> "y"] >>
                  /\ ydot = ComputeFCTSolution
            /\ monoType = 8 =>
                  runs = <<"ComputeLowOrderSolution", "ComputeLimitedSolution">>
            /\ intoY = IF monoType = 8 THEN {1, 2} ELSE {Len(ywrites)}
            /\ intoY # {}

\* Mult has run the three routines of a flux-corrected type on bounds
\* computed ahead of the step
C16_Witness ==
    /\ fctpc = "mult"
    /\ monoType = 6
    /\ Len(ywrites) = 3
    /\ bnds.x_min # <<>>
    /\ ydot = ComputeFCTSolution

----------------------------------------------------------------------------
(* QuadratureInterpolator::Values *)

\* the kernels compiled for fixed sizes
Specialised == {KernelCases[c].T : c \in 1 .. Len(KernelCases)}

\* C17: with NE > 0, Values runs a specialised kernel only when the actual
\* (dim, vdim, D1D, Q1D) are that kernel's parameters, runs the generic
\* kernel for every other combination with D1D <= 8 and Q1D <= 8, and aborts
\* without running a kernel whenever D1D > 8 or Q1D > 8.
C17_KernelMatchesActualSizes ==
    (kernel # NoKernel /\ qi.NE > 0) =>
        LET actual == <<qi.dim, qi.vdim, qi.D1D, qi.Q1D>>
        IN  /\ kernel.ran = "specialised" => kernel.T = actual
            /\ (actual \notin Specialised /\ qi.D1D <= 8 /\ qi.Q1D <= 8) =>
                  kernel.ran = "generic"
            /\ (qi.D1D > 8 \/ qi.Q1D > 8) => kernel.ran = "abort"

----------------------------------------------------------------------------
(* Lifetime of the received overlap vectors *)

\* the (subdomain, direction) slots whose OvlpSol pointer holds a vector
LiveSlots ==
    {ld \in Subdomains \X Directions :
        /\ OvlpSol[ld[1]] # <<>>
        /\ OvlpSol[ld[1]][ld[2]].live}

\* C18: the vectors allocated for received overlap data and not destroyed
\* are at most one per (subdomain, direction) slot, whatever the number of
\* calls: a later call leaves no vector of an earlier call alive.
C18_ReceivedVectorsAreTransient ==
    nOvlpSol <= Cardinality(LiveSlots)


\* the direction vectors of a grid of dimension dim
DirectionVectors == [1 .. dim -> {-1, 0, 1}]

\* number of times e occurs in list
Occurrences(list, e) == Cardinality({n \in 1 .. Len(list) : list[n] = e})

\* element e of subdomain l lies, along every axis the direction v points
\* along, within the halo width (2 * OvlpNlayers mesh sizes) of the face of
\* l's bounding box on that side, and l has a neighbour on that side
InHalo(l, v, e) ==
    LET ijk   == GetSubdomainijk(l, nxyz)
        bb    == GetBoundingBox2(l)
        c2    == part.center2[l][e + 1]
        halo2 == 2 * part.MeshSize * 2 * part.OvlpNlayers
    IN  /\ \E a \in 1 .. dim : v[a] # 0
        /\ \A a \in 1 .. dim :
              /\ v[a] = -1 => ijk[a] > 0 /\ c2[a] < bb.pmin[a] + halo2
              /\ v[a] = 1  => ijk[a] < nxyz[a] - 1 /\ c2[a] > bb.pmax[a] - halo2

\* subdomain l has a neighbour in direction v inside the grid
HasNeighbour(l, v) ==
    LET ijk == GetSubdomainijk(l, nxyz)
    IN  \A a \in 1 .. dim : 0 <= ijk[a] + v[a] /\ ijk[a] + v[a] < nxyz[a]

\* C19: once ComputeOvlpElems has run for subdomain l, element e is in the
\* bucket of direction v exactly once when v is not the zero direction and e
\* lies in the halo of l on every side v points to, and not at all otherwise;
\* the zero bucket and the buckets without a neighbour in the grid are empty.
C19_BucketsHoldExactlyTheHaloElements ==
    \A l \in Subdomains : OvlpElems[l] # <<>> =>
        \A v \in DirectionVectors :
            LET bucket == OvlpElems[l][GetDirectionId(v)]
            IN  /\ \A e \in 0 .. Len(part.center2[l]) - 1 :
                     Occurrences(bucket, e) = IF InHalo(l, v, e) THEN 1 ELSE 0
                /\ \A n \in 1 .. Len(bucket) :
                     bucket[n] \in 0 .. Len(part.center2[l]) - 1
                /\ (\A a \in 1 .. dim : v[a] = 0) => bucket = <<>>
                /\ ~HasNeighbour(l, v) => bucket = <<>>

\* a corner element sits in a corner bucket and in both face buckets next to
\* it, while a bucket that faces the outside of the grid is empty
C19_Witness ==
    \E l \in Subdomains :
        /\ OvlpElems[l] # <<>>
        /\ \E e \in 0 .. Len(part.center2[l]) - 1 :
              Cardinality({v \in DirectionVectors :
                  Occurrences(OvlpElems[l][GetDirectionId(v)], e) = 1}) >= 3
        /\ \E v \in DirectionVectors :
              /\ \E a \in 1 .. dim : v[a] # 0
              /\ ~HasNeighbour(l, v)
              /\ OvlpElems[l][GetDirectionId(v)] = <<>>


\* the decoded dofs of the elements of bucket (l, d), element after element
BucketDofs(l, d) ==
    Flatten([n \in 1 .. Len(OvlpElems[l][d]) |->
                LET ed == fes[l].ElementDofs[OvlpElems[l][d][n] + 1]
                IN  [i \in 1 .. Len(ed) |-> IF ed[i] >= 0 THEN ed[i] ELSE (0 - ed[i]) - 1]])

\* position of the first occurrence of v in s (1-based)
FirstAt(s, v) == CHOOSE i \in 1 .. Len(s) : s[i] = v /\ \A j \in 1 .. i - 1 : s[j] # v

\* list holds no entry twice, holds exactly the entries of dofs, and lists
\* them in the order in which they first occur in dofs
OrderedUnique(list, dofs) ==
    /\ \A i, j \in 1 .. Len(list) : list[i] = list[j] => i = j
    /\ {list[i] : i \in 1 .. Len(list)} = {dofs[i] : i \in 1 .. Len(dofs)}
    /\ \A i \in 1 .. Len(list) - 1 : FirstAt(dofs, list[i]) < FirstAt(dofs, list[i + 1])

\* C20: for every owned subdomain l and direction slot d, OvlpTDofs[l][d]
\* holds no dof twice, holds exactly the decoded dofs of the elements of
\* bucket (l, d), whatever the other slots hold, and lists them in the order
\* in which they first occur along the bucket's element list.
C20_OvlpTDofsAreOrderedUnique ==
    \A l \in Subdomains : OvlpTDofs[l] # <<>> =>
        \A d \in 0 .. nrneighbors - 1 :
            OrderedUnique(OvlpTDofs[l][d], BucketDofs(l, d))

\* two slots of one subdomain share a dof, one of them has a dof met through
\* two of its elements, and an orientation-encoded dof has been decoded
C20_Witness ==
    \E l \in Subdomains :
        /\ OvlpTDofs[l] # <<>>
        /\ \E d1, d2 \in 0 .. nrneighbors - 1 :
              /\ d1 < d2
              /\ \E i \in 1 .. Len(OvlpTDofs[l][d1]) :
                    \E j \in 1 .. Len(OvlpTDofs[l][d2]) :
                        OvlpTDofs[l][d1][i] = OvlpTDofs[l][d2][j]
              /\ Len(BucketDofs(l, d2)) > Len(OvlpTDofs[l][d2])
        /\ \E d \in 0 .. nrneighbors - 1 :
              \E n \in 1 .. Len(OvlpElems[l][d]) :
                 \E i \in 1 .. Len(fes[l].ElementDofs[OvlpElems[l][d][n] + 1]) :
                    fes[l].ElementDofs[OvlpElems[l][d][n] + 1][i] < 0

\* the direction vectors GetDirectionijk hands out: three entries in 3D, two
\* entries and the sentinel -1 in 2D
DirectionArrays ==
    {v \in [1 .. 3 -> {-1, 0, 1}] : dim = 2 => v[3] = -1}

\* lines 332-337: the id of direction1, the negation of direction d
Direction1Id(d) ==
    GetDirectionId([a \in 1 .. 3 |-> IF a <= dim THEN 0 - GetDirectionijk(d)[a] ELSE -1])

\* direction d moves along no axis
ZeroDirection(d) == \A a \in 1 .. dim : GetDirectionijk(d)[a] = 0

\* every slot of slots carries the negated direction as its d1
SlotsNegate(slots) == \A n \in 1 .. Len(slots) : slots[n].d1 = Direction1Id(slots[n].d)

\* C21: GetDirectionId and GetDirectionijk are inverse to each other on the
\* 27 directions of 3D and on the 9 directions of 2D (third entry -1); the
\* negation TransferToNeighbors applies is an involution on the ids, maps a
\* non-zero direction to a valid id other than itself, and is the d1 of
\* every slot the passes visit.
C21_DirectionIdsInvertAndNegate ==
    /\ \A d \in Directions :
          /\ GetDirectionijk(d) \in DirectionArrays
          /\ GetDirectionId(GetDirectionijk(d)) = d
          /\ Direction1Id(Direction1Id(d)) = d
          /\ ~ZeroDirection(d) => Direction1Id(d) \in Directions \ {d}
          /\ Direction1Id(d) = Opposite(d)
    /\ \A v \in DirectionArrays :
          /\ GetDirectionId(v) \in Directions
          /\ GetDirectionijk(GetDirectionId(v)) = v
    /\ SlotsNegate(Slots(SubdomainIds))

\* some slot that moves along the third axis has delivered its vector
SlotReceived(slots) ==
    \E n \in 1 .. Len(slots) :
        /\ GetDirectionijk(slots[n].d)[3] # 0
        /\ tpc[subdomain_rank[slots[n].i1]] = "done"
        /\ OvlpSol[slots[n].i1][slots[n].d1].live
        /\ ~OvlpSol[slots[n].i1][slots[n].d].live

\* a received vector sits in the slot of the negated direction, in 3D with
\* a direction that moves along the third axis
C21_Witness ==
    dim = 3 /\ SlotReceived(Slots(SubdomainIds))

\* the extraction pass hands the n-th receive buffer to the slot its
\* receive was posted for: the request's tag names the source slot (i0, d),
\* and the buffer's values land at OvlpTDofs[i1][d1] of the neighbour i1 of
\* i0 in direction d and the negated direction d1
BufferReachesItsSlot(p, n) ==
    LET tag == recv_requests[p][n].tag
        i0  == tag \div nrneighbors
        d   == tag % nrneighbors
        i1  == Neighbour(i0, d)
        d1  == Opposite(d)
        to  == OvlpTDofs[i1][d1]
    IN  /\ ValidSlot(i0, d)
        /\ subdomain_rank[i1] = p
        /\ Len(recv_buffer[p][n]) = Len(to)
        /\ OvlpSol'[i1][d1].live
        /\ \A k \in 1 .. Len(to) : OvlpSol'[i1][d1].data[to[k] + 1] = recv_buffer[p][n][k]

CollectivesDone(p) ==
    LET inPhase == CASE pc[p].st \in {"count", "alltoall"} -> 0
                     [] pc[p].st \in {"fill", "alltoallv"} -> 1
                     [] OTHER -> 2
    IN  IF pc[p].ph = "B" THEN 2 + inPhase
        ELSE IF pc[p].ph = "R" THEN 0
        ELSE inPhase

\* the routine rank p is in
Routine(p) == IF pc[p].ph \in {"A", "B"} THEN "Setup" ELSE pc[p].ph

\* the position a rank moves to from position at
Successors(at) ==
    CASE at.st = "count"     -> {At_(at.ph, "alltoall")}
      [] at.st = "alltoall"  -> {At_(at.ph, "fill")}
      [] at.st = "fill"      -> {At_(at.ph, "alltoallv")}
      [] at.st = "alltoallv" -> {At_(at.ph, "extract")}
      [] at.st = "extract"   -> IF at.ph = "A" THEN {At_("B", "count")}
                                ELSE IF at.ph = "B" THEN {At_("R", "ready")}
                                ELSE {At_(at.ph, "done")}
      [] at.st = "done"      -> {At_("R", "ready")}
      [] OTHER               -> {At_("G", "count"), At_("S", "count")}

\* what rank p has to place in the segment of rank q, from the lists the
\* fill loops of the four rounds walk
SegmentItems(p, q) ==
    CASE pc[p].ph = "A" ->
            Flatten([k \in 1 .. part.nrsubdomains |->
                IF subdomain_rank[k - 1] = q /\ Len(local_tdofs[p][k - 1]) > 0
                THEN <<k - 1, Len(local_tdofs[p][k - 1])>> \o local_tdofs[p][k - 1]
                ELSE <<>>])
      [] pc[p].ph = "B" ->
            Flatten([k \in 1 .. part.nrsubdomains |->
                IF subdomain_rank[k - 1] = p /\ q \in RanksMarker(p, k - 1)
                THEN <<k - 1, Len(SubdomainGTrueDofs[p][k - 1])>> \o SubdomainGTrueDofs[p][k - 1]
                ELSE <<>>])
      [] pc[p].ph = "G" ->
            LET mine == SelectSeq(G_SendItems(p), LAMBDA it : it[1] = q)
            IN  [n \in 1 .. Len(mine) |-> mine[n][2]]
      [] OTHER ->
            LET mine == SelectSeq(S_SendItems(p), LAMBDA it : it[1] = q)
            IN  [n \in 1 .. Len(mine) |-> mine[n][2]]

\* the counts and displacements of rank p and the segment it filled for q
SegmentAgrees(p, q, items) ==
    /\ send_count[p][q] = Len(items)
    /\ send_displ[p][q] = SumSeq([r \in 1 .. q |-> send_count[p][r - 1]])
    /\ recv_displ[p][q] = SumSeq([r \in 1 .. q |-> recv_count[p][r - 1]])
    /\ recv_count[p][q] = send_count[q][p]
    /\ send_displ[p][q] + Len(items) <= Len(sendbuf[p])
    /\ \A n \in 1 .. Len(items) : sendbuf[p][send_displ[p][q] + n] = items[n]

\* C26: every rank walks the same sequence of collectives in each routine,
\* whatever it owns: the ranks inside one routine have completed the same
\* number of collectives and each rank moves count, all-to-all, fill,
\* all-to-all-v, extract; and a rank that reaches the variable exchange has
\* placed in each peer's segment as many items as it announced, the segments
\* lying at the prefix sums of the counts and covering the send buffer.
C26_CollectivesMatchAcrossRanks ==
    /\ [](\A p, q \in Ranks :
            Routine(p) = Routine(q) => CollectivesDone(p) = CollectivesDone(q))
    /\ [](\A p \in Ranks : pc[p].st = "alltoallv" =>
            /\ Len(sendbuf[p]) = SumSeq([r \in 1 .. num_procs |-> send_count[p][r - 1]])
            /\ \A q \in Ranks : SegmentAgrees(p, q, SegmentItems(p, q)))
    /\ [][\A p \in Ranks : pc'[p] # pc[p] => pc'[p] \in Successors(pc[p])]_vars

\* a rank that hosts no subdomain and owns no element stands at the variable
\* exchange of SubdomainsToGlobal with nothing to send, next to a rank that
\* sends to both ranks
C26_Witness ==
    \E p, q \in Ranks :
        /\ pc[p] = At_("S", "alltoallv") /\ pc[q] = At_("S", "alltoallv")
        /\ \A ip \in Subdomains : subdomain_rank[ip] # p
        /\ \A r \in Ranks : send_count[p][r] = 0
        /\ \A r \in Ranks : send_count[q][r] > 0
        /\ send_displ[q][num_procs - 1] > 0

\* entries of the tensors of a launch: b(q, d), x(d, c, e) with d the tuple
\* of 1D dof indices, and the place of y(c, q, e) with q the tuple of 1D
\* quadrature indices
BasisEntry(q, d) == launch.b_[1 + q + (launch.Q1D * d)]
InputEntry(d, c, e) ==
    LET D == launch.D1D
        node == IF launch.dim = 2 THEN d[1] + (D * d[2]) ELSE d[1] + (D * d[2]) + (D * D * d[3])
    IN  launch.x_[1 + node + (PowDim(D, launch.dim) * (c + (launch.VDIM * e)))]
OutputPlace(c, q, e) ==
    LET Q == launch.Q1D
        point == IF launch.dim = 2 THEN q[1] + (Q * q[2]) ELSE q[1] + (Q * q[2]) + (Q * Q * q[3])
    IN  <<"y", 0, c + (launch.VDIM * (point + (PowDim(Q, launch.dim) * e)))>>

\* the dense contraction: the sum over all dof tuples d of
\* b(q1, d1) * .. * b(qdim, ddim) * x(d, c, e)
DenseContraction(c, q, e) ==
    LET D == launch.D1D
        tuple(i) == << i % D, (i \div D) % D, i \div (D * D) >>
        weight(d) == BasisEntry(q[1], d[1]) * BasisEntry(q[2], d[2])
                        * (IF launch.dim = 2 THEN 1 ELSE BasisEntry(q[3], d[3]))
    IN  SumSeq([i \in 1 .. PowDim(D, launch.dim) |->
                   weight(tuple(i - 1)) * InputEntry(tuple(i - 1), c, e)])

\* the element thread t works on, and the blocks that have run to the end
ElementOf(t) == IF launch.dim = 2 THEN (t.blk * launch.NBZ) + t.z ELSE t.blk
BlockOf(e) == IF launch.dim = 2 THEN e \div launch.NBZ ELSE e
Finished(blk) == kepoch[blk] = NumPhases(launch)

\* C22: when the block of element e has run to the end, y(c, q, e) holds the
\* dense contraction of b along every axis with x(., c, e) for every
\* component c and quadrature point q, whatever y held before and whatever
\* the vectors of the other elements are.
C22_SumFactorisationEqualsDenseContraction ==
    \A e \in 0 .. launch.NE - 1 : Finished(BlockOf(e)) =>
        \A c \in 0 .. launch.VDIM - 1 :
            \A q \in [1 .. launch.dim -> 0 .. launch.Q1D - 1] :
                kmem[OutputPlace(c, q, e)] = DenseContraction(c, q, e)

\* a 3D launch and a 2D launch with more dofs than threads along an axis
\* have run to the end on two elements and two components, over previous
\* contents of y that differ from the result everywhere
C22_Witness ==
    /\ launch.VDIM = 2 /\ launch.NE = 2
    /\ \A blk \in DOMAIN kepoch : Finished(blk)
    /\ \A i \in 0 .. (launch.VDIM * PowDim(launch.Q1D, launch.dim) * launch.NE) - 1 :
          kmem[<<"y", 0, i>>] # 5

\* no location is written by one thread and read or written by another
\* between two barriers
RaceFree ==
    \A a \in klog : a[3] = "w" =>
        \A o \in klog : (o[2] = a[2] /\ o[1] # a[1]) => FALSE

\* shared arrays belong to one block, and the threads of a block are at most
\* one barrier phase apart
BlockLocal ==
    /\ \A a \in klog : a[2][1] # "y" => a[2][2] = a[1].blk
    /\ \A t \in DOMAIN kpos : kepoch[t.blk] <= kpos[t] /\ kpos[t] <= kepoch[t.blk] + 1

\* C23 as stated: no race between two barriers, and a barrier joins the
\* threads of one element only.
C23_Original_BarriersWithinOneElement ==
    /\ RaceFree
    /\ \A t1, t2 \in DOMAIN kpos :
          (t1.blk = t2.blk /\ kepoch[t1.blk] > 0) => ElementOf(t1) = ElementOf(t2)

\* C23: between two barriers of a block no shared location and no entry of
\* y is written by one thread and read or written by another, over all
\* components; a barrier joins the threads of one block, which are those of
\* one element in EvalByVDim3D and of the up to NBZ elements of a batch in
\* EvalByVDim2D, s_B being loaded by layer 0 for all layers of the batch.
C23_RaceFreeBetweenBarriersOfABlock ==
    /\ RaceFree
    /\ BlockLocal
    /\ \A t1, t2 \in DOMAIN kpos :
          t1.blk = t2.blk =>
              IF launch.dim = 3 THEN ElementOf(t1) = ElementOf(t2)
              ELSE ElementOf(t1) \div launch.NBZ = ElementOf(t2) \div launch.NBZ
    /\ \A a \in klog : (a[2][1] = "s_B" /\ a[3] = "w") => a[1].z = 0

\* a batch of two elements is between two barriers, the thread of its
\* second layer having read the table the first layer loaded, while the
\* other block of the launch has run to the end
C23_Witness ==
    /\ launch.NBZ = 2
    /\ \E a \in klog : a[1].z = 1 /\ a[2][1] = "s_B" /\ a[3] = "r"
    /\ \E a \in klog : a[1].z = 0
    /\ \E blk \in DOMAIN kepoch : Finished(blk)


----------------------------------------------------------------------------
(* Mass neutrality of the limited corrections *)

\* lumpedM_i * dt * (y_i - yL_i) at dof i (1-based), as an exact quotient
Correction(i) ==
    [ num |-> lumpedM[i] * dt * (ydot[i].num - (yL[i] * ydot[i].den)),
      den |-> ydot[i].den ]

\* the sum of a sequence of quotients, as a quotient
RECURSIVE SumQuot(_)
SumQuot(q) ==
    IF Len(q) = 0 THEN [num |-> 0, den |-> 1]
    ELSE LET rest == SumQuot(Tail(q))
         IN  [ num |-> (Head(q).num * rest.den) + (rest.num * Head(q).den),
               den |-> Head(q).den * rest.den ]

ElementCorrections(k) ==
    [j \in 1 .. FCTSpace.nd |-> Correction((k * FCTSpace.nd) + j)]

\* Correction(i) = s * fClipped(i) with 0 <= s <= 1
ScaledWithinUnit(i) ==
    LET f == fClipped(i - 1)
        c == Correction(i)
    IN  /\ c.den > 0
        /\ IF f >= 0 THEN 0 <= c.num /\ c.num <= f * c.den
                     ELSE f * c.den <= c.num /\ c.num <= 0

\* C24: after ComputeFCTSolution the sum over the nodes of every element of
\* lumpedM_j * dt * (y_j - yL_j) is zero, and every correction is its clipped
\* flux times a factor in [0, 1]
C24_CorrectionsAreMassNeutral ==
    fctpc = "fct" =>
        /\ \A k \in 0 .. FCTSpace.NE - 1 : SumQuot(ElementCorrections(k)).num = 0
        /\ \A i \in 1 .. Len(ydot) : ScaledWithinUnit(i)

\* one element whose positive fluxes dominate and were scaled by a factor
\* strictly between 0 and 1, another whose negative fluxes dominate
C24_Witness ==
    /\ fctpc = "fct"
    /\ \E k \in 0 .. FCTSpace.NE - 1 :
          LET s == ElementSums(k)
          IN  s.sumPos + s.sumNeg > 0 /\ s.sumNeg < 0
    /\ \E k \in 0 .. FCTSpace.NE - 1 :
          LET s == ElementSums(k)
          IN  s.sumPos + s.sumNeg < 0 /\ s.sumPos > 0


----------------------------------------------------------------------------
(* The discrete upwinding matrix *)

\* the offsets of K, the pair <<row, col>> at an offset, and entry (i, j) of
\* the matrix with the pattern of K and the given data (0 outside the pattern)
Offsets == 0 .. Len(prob.K.J) - 1
PlaceOf(k) == <<RowOf(prob.K, k), At(prob.K.J, k)>>
Entry(data, i, j) ==
    LET at == {k \in Offsets : PlaceOf(k) = <<i, j>>}
    IN  IF at = {} THEN 0 ELSE At(data, CHOOSE k \in at : TRUE)
SymmetricPattern == \A k \in Offsets : \E l \in Offsets : PlaceOf(l) = <<PlaceOf(k)[2], PlaceOf(k)[1]>>
Rows == 0 .. prob.K.n - 1

\* C30: D_ij = D_ji = max(0, -K_ij, -K_ji) off the diagonal, D_ii = -(sum of
\* the other entries of row i), rows and columns of D sum to zero, K + D has
\* no negative off-diagonal entry; smap sends the offset of (row, col) to the
\* offset of (col, row) and is its own inverse; the error is raised exactly
\* when a transposed entry is missing
C30_UpwindingMatrixIsSymmetricZeroSum ==
    /\ asmpc = "done" =>
          /\ \A k \in Offsets :
                LET i == PlaceOf(k)[1]
                    j == PlaceOf(k)[2]
                IN  /\ PlaceOf(At(evo.smap, k)) = <<j, i>>
                    /\ At(evo.smap, At(evo.smap, k)) = k
                    /\ i # j =>
                          /\ At(evo.D, k) = Max2(Max2(0, 0 - Entry(prob.K.data, i, j)),
                                                 0 - Entry(prob.K.data, j, i))
                          /\ At(evo.D, k) = Entry(evo.D, j, i)
                          /\ At(fct.KpD, k) >= 0
          /\ \A i \in Rows :
                /\ Entry(evo.D, i, i) = 0 - SumSeq([n \in 1 .. prob.K.n |->
                                                IF n - 1 = i THEN 0 ELSE Entry(evo.D, i, n - 1)])
                /\ SumSeq([n \in 1 .. prob.K.n |-> Entry(evo.D, i, n - 1)]) = 0
                /\ SumSeq([n \in 1 .. prob.K.n |-> Entry(evo.D, n - 1, i)]) = 0
    /\ asmpc # "start" => (asmpc = "mfem_error" <=> ~SymmetricPattern)

\* a matrix with K_ij and K_ji of different size and sign, so that D_ij comes
\* from the entry of the other row
C30_Witness ==
    /\ asmpc = "done"
    /\ \E k \in Offsets :
          LET i == PlaceOf(k)[1]
              j == PlaceOf(k)[2]
          IN  /\ i < j
              /\ Entry(prob.K.data, i, j) = 1
              /\ Entry(prob.K.data, j, i) = -2
              /\ At(evo.D, k) = 2
    /\ Len(prob.K.J) < UpwindSize * UpwindSize


----------------------------------------------------------------------------
(* The boundary terms of the Rusanov branch *)

\* the dofs of boundary i, as ExtractBdrDofs filled them
BoundaryDofSet(i) == {Elem(fct.dofs, j, i) : j \in 0 .. fct.dofs.Height - 1}

\* z with bdrDiff(k,i) * (sum of x over the dofs of boundary i - numDofs * x_n)
\* added at every dof n of every boundary i of every element k
DiffusedByBoundary ==
    LET nd == ElementDofs(prob.W)
        on(k, i) == SumSeq([n \in 1 .. fct.dofs.Height |->
                               At(prob.x, (k * nd) + Elem(fct.dofs, n - 1, i))])
    IN  [n \in 1 .. Len(prob.z) |->
            LET k == (n - 1) \div nd
            IN  prob.z[n] + SumSeq([b \in 1 .. fct.dofs.Width |->
                    IF (n - 1) % nd \in BoundaryDofSet(b - 1)
                    THEN fct.bdrDiff[k + 1][b] * (on(k, b - 1) - (fct.dofs.Height * prob.x[n]))
                    ELSE 0])]

\* C28: the Rusanov branch runs to its end, every dofs(r, c) it evaluates has
\* r below the number of rows and c below the number of columns of dofs, and
\* the boundary terms it adds are those of the dofs lying on each boundary
C28_RusanovReadsFaceDofOfBoundary ==
    asmpc \notin {"start", "unused"} =>
        /\ asmpc = "done"
        /\ \A i \in 0 .. fct.dofs.Width - 1 : \A j \in 0 .. fct.dofs.Height - 1 :
              InBounds(fct.dofs, i, j)
        /\ evo.z = DiffusedByBoundary


----------------------------------------------------------------------------
(* The index of shapeNeighbor *)

\* C29: every idx preprocessFluxLumping reads shapeNeighbor at satisfies
\* 0 <= idx < nd, also across boundaries whose neighbour is element 0 and
\* boundaries without a neighbour
C29_ShapeNeighborIndexWithinElement ==
    \A e \in DOMAIN evo.idx :
        0 <= evo.idx[e] /\ evo.idx[e] < (prob.W.p + 1) * (prob.W.p + 1)


----------------------------------------------------------------------------
(* The denominators of the limiting ratios *)

\* v + e*eps is zero: nothing was added to a vanishing v
Vanishes(d) == d.v = 0 /\ d.e = 0

\* C25: every division that forms a limiting ratio, a weight or a blending
\* coefficient in ComputeFCTSolution, LumpFluxTerms, the residual-distribution
\* branch of ComputeLowOrderSolution and ComputeLimitedSolution has a non-zero
\* denominator
C25_DenominatorsAreNonZero ==
    \A d \in evo.denominators : ~Vanishes(d)

====
